---- MODULE Spec2Model ----
(***************************************************************************)
(* LexSolv AI privacy vault (src/services/privacy_vault.py): reversible    *)
(* tokenization of nested financial records, the process-wide vault store  *)
(* with its TTL sweep, and re-identification of analysis output.           *)
(*                                                                         *)
(* A Python str is a sequence of one-character strings.  A JSON value is   *)
(* a record tagged by t: "null", "str" (v), "num" (n), "list" (items) or   *)
(* "dict" (keys, vals: two sequences of equal length, in insertion order). *)
(***************************************************************************)
EXTENDS Integers, Sequences, FiniteSets, TLC

\* ------------------------------------------------------------------------
\* Strings
\* ------------------------------------------------------------------------

UpperChars ==
  <<"A","B","C","D","E","F","G","H","I","J","K","L","M",
    "N","O","P","Q","R","S","T","U","V","W","X","Y","Z">>

LowerChars ==
  <<"a","b","c","d","e","f","g","h","i","j","k","l","m",
    "n","o","p","q","r","s","t","u","v","w","x","y","z">>

DigitChars == <<"0","1","2","3","4","5","6","7","8","9">>

\* str.lower(), one character
LowerChar(c) ==
  IF \E i \in 1..26 : UpperChars[i] = c
    THEN LowerChars[CHOOSE i \in 1..26 : UpperChars[i] = c]
    ELSE c

\* str.lower()
Lower(s) == [i \in 1..Len(s) |-> LowerChar(s[i])]

\* the character class [a-z0-9]
AlnumLower == {LowerChars[i] : i \in 1..26} \cup {DigitChars[i] : i \in 1..10}

\* re.sub(r"[^a-z0-9]", "", s)
Normalise(s) == SelectSeq(s, LAMBDA c : c \in AlnumLower)

\* Python's  p in s  for two strings
Contains(s, p) ==
  \E i \in 0..(Len(s) - Len(p)) : SubSeq(s, i + 1, i + Len(p)) = p

\* the characters str.strip() removes
Whitespace == {" ", "\t", "\n", "\r"}

\* str.strip()
Strip(s) ==
  LET keep == {i \in 1..Len(s) : s[i] \notin Whitespace}
  IN  IF keep = {} THEN <<>>
      ELSE SubSeq(s, CHOOSE i \in keep : \A j \in keep : i <= j,
                     CHOOSE i \in keep : \A j \in keep : i >= j)

\* the decimal digits of n >= 0, as str(n) writes them
RECURSIVE Decimal(_)
Decimal(n) ==
  IF n < 10 THEN <<DigitChars[n + 1]>>
  ELSE Decimal(n \div 10) \o <<DigitChars[(n % 10) + 1]>>

\* the minimum field width of the format "{:03d}"
PadWidth == 3

\* f"{n:03d}"
ZeroPad(n) ==
  LET d == Decimal(n)
  IN  IF Len(d) >= PadWidth THEN d
      ELSE [i \in 1..(PadWidth - Len(d)) |-> "0"] \o d

\* str.replace(old, new) for a non-empty old: leftmost, non-overlapping
RECURSIVE StrReplace(_, _, _)
StrReplace(text, old, new) ==
  IF Len(text) < Len(old) THEN text
  ELSE IF SubSeq(text, 1, Len(old)) = old
    THEN new \o StrReplace(SubSeq(text, Len(old) + 1, Len(text)), old, new)
    ELSE <<text[1]>> \o StrReplace(Tail(text), old, new)

\* ------------------------------------------------------------------------
\* JSON values
\* ------------------------------------------------------------------------

JNull == [t |-> "null"]
JStr(s) == [t |-> "str", v |-> s]
JNum(k) == [t |-> "num", n |-> k]
JList(xs) == [t |-> "list", items |-> xs]
JDict(ks, vs) == [t |-> "dict", keys |-> ks, vals |-> vs]

\* ------------------------------------------------------------------------
\* Field-detection configuration
\* ------------------------------------------------------------------------

\* _classify_field returning None
NoCategory == "none"

SENSITIVE_FIELD_PATTERNS ==
  <<
  [category |-> "name", patterns |-> <<
        <<"n","a","m","e">>,
        <<"f","i","r","s","t","n","a","m","e">>,
        <<"f","i","r","s","t","_","n","a","m","e">>,
        <<"l","a","s","t","n","a","m","e">>,
        <<"l","a","s","t","_","n","a","m","e">>,
        <<"c","o","n","t","a","c","t","n","a","m","e">>,
        <<"c","o","n","t","a","c","t","_","n","a","m","e">>,
        <<"c","o","m","p","a","n","y","n","a","m","e">>,
        <<"c","o","m","p","a","n","y","_","n","a","m","e">>,
        <<"d","i","s","p","l","a","y","n","a","m","e">>,
        <<"d","i","s","p","l","a","y","_","n","a","m","e">>,
        <<"f","u","l","l","n","a","m","e">>,
        <<"f","u","l","l","_","n","a","m","e">>,
        <<"p","a","y","e","e","n","a","m","e">>,
        <<"p","a","y","e","e","_","n","a","m","e">>,
        <<"p","a","y","e","r","n","a","m","e">>,
        <<"p","a","y","e","r","_","n","a","m","e">>,
        <<"v","e","n","d","o","r","n","a","m","e">>,
        <<"v","e","n","d","o","r","_","n","a","m","e">>,
        <<"s","u","p","p","l","i","e","r","n","a","m","e">>,
        <<"s","u","p","p","l","i","e","r","_","n","a","m","e">>,
        <<"d","i","r","e","c","t","o","r","n","a","m","e">>,
        <<"d","i","r","e","c","t","o","r","_","n","a","m","e">>,
        <<"c","r","e","d","i","t","o","r","n","a","m","e">>,
        <<"c","r","e","d","i","t","o","r","_","n","a","m","e">>,
        <<"l","e","g","a","l","_","n","a","m","e">>,
        <<"l","e","g","a","l","n","a","m","e">>,
        <<"t","r","a","d","i","n","g","_","n","a","m","e">>,
        <<"t","r","a","d","i","n","g","n","a","m","e">>,
        <<"p","r","a","c","t","i","t","i","o","n","e","r","_","n","a","m","e">>,
        <<"p","r","a","c","t","i","t","i","o","n","e","r","n","a","m","e">>,
        <<"f","i","r","m","_","n","a","m","e">>,
        <<"f","i","r","m","n","a","m","e">>,
        <<"s","i","g","n","e","r","_","n","a","m","e">>,
        <<"s","i","g","n","e","r","n","a","m","e">> >>],
  [category |-> "address", patterns |-> <<
        <<"a","d","d","r","e","s","s">>,
        <<"a","d","d","r","e","s","s","l","i","n","e">>,
        <<"a","d","d","r","e","s","s","_","l","i","n","e">>,
        <<"s","t","r","e","e","t">>,
        <<"s","t","r","e","e","t","a","d","d","r","e","s","s">>,
        <<"s","t","r","e","e","t","_","a","d","d","r","e","s","s">>,
        <<"c","i","t","y">>,
        <<"s","u","b","u","r","b">>,
        <<"s","t","a","t","e">>,
        <<"p","o","s","t","c","o","d","e">>,
        <<"p","o","s","t","a","l","c","o","d","e">>,
        <<"p","o","s","t","a","l","_","c","o","d","e">>,
        <<"z","i","p","c","o","d","e">>,
        <<"z","i","p","_","c","o","d","e">>,
        <<"c","o","u","n","t","r","y">>,
        <<"d","e","l","i","v","e","r","y","a","d","d","r","e","s","s">>,
        <<"d","e","l","i","v","e","r","y","_","a","d","d","r","e","s","s">>,
        <<"p","o","s","t","a","l","a","d","d","r","e","s","s">>,
        <<"p","o","s","t","a","l","_","a","d","d","r","e","s","s">>,
        <<"f","i","r","m","_","a","d","d","r","e","s","s">>,
        <<"f","i","r","m","a","d","d","r","e","s","s">> >>],
  [category |-> "email", patterns |-> <<
        <<"e","m","a","i","l">>,
        <<"e","m","a","i","l","a","d","d","r","e","s","s">>,
        <<"e","m","a","i","l","_","a","d","d","r","e","s","s">>,
        <<"c","o","n","t","a","c","t","_","e","m","a","i","l">>,
        <<"c","o","n","t","a","c","t","e","m","a","i","l">>,
        <<"f","i","r","m","_","e","m","a","i","l">>,
        <<"f","i","r","m","e","m","a","i","l">> >>],
  [category |-> "phone", patterns |-> <<
        <<"p","h","o","n","e">>,
        <<"p","h","o","n","e","n","u","m","b","e","r">>,
        <<"p","h","o","n","e","_","n","u","m","b","e","r">>,
        <<"m","o","b","i","l","e">>,
        <<"m","o","b","i","l","e","n","u","m","b","e","r">>,
        <<"m","o","b","i","l","e","_","n","u","m","b","e","r">>,
        <<"f","a","x">>,
        <<"f","a","x","n","u","m","b","e","r">>,
        <<"f","a","x","_","n","u","m","b","e","r">>,
        <<"t","e","l","e","p","h","o","n","e">>,
        <<"c","o","n","t","a","c","t","_","p","h","o","n","e">>,
        <<"c","o","n","t","a","c","t","p","h","o","n","e">>,
        <<"f","i","r","m","_","p","h","o","n","e">>,
        <<"f","i","r","m","p","h","o","n","e">> >>],
  [category |-> "abn", patterns |-> <<
        <<"a","b","n">>,
        <<"a","c","n">>,
        <<"b","u","s","i","n","e","s","s","n","u","m","b","e","r">>,
        <<"b","u","s","i","n","e","s","s","_","n","u","m","b","e","r">> >>],
  [category |-> "bank_account", patterns |-> <<
        <<"b","a","n","k","a","c","c","o","u","n","t">>,
        <<"b","a","n","k","_","a","c","c","o","u","n","t">>,
        <<"a","c","c","o","u","n","t","n","u","m","b","e","r">>,
        <<"a","c","c","o","u","n","t","_","n","u","m","b","e","r">>,
        <<"b","s","b">>,
        <<"r","o","u","t","i","n","g","n","u","m","b","e","r">>,
        <<"r","o","u","t","i","n","g","_","n","u","m","b","e","r">>,
        <<"i","b","a","n">>,
        <<"s","w","i","f","t","c","o","d","e">>,
        <<"s","w","i","f","t","_","c","o","d","e">> >>],
  [category |-> "tax_number", patterns |-> <<
        <<"t","f","n">>,
        <<"t","a","x","f","i","l","e","n","u","m","b","e","r">>,
        <<"t","a","x","_","f","i","l","e","_","n","u","m","b","e","r">>,
        <<"v","a","t","n","u","m","b","e","r">>,
        <<"v","a","t","_","n","u","m","b","e","r">> >>]
  >>
FIELD_ALLOWLIST ==
  { <<"a","c","c","o","u","n","t","_","c","o","d","e">>,
    <<"a","c","c","o","u","n","t","c","o","d","e">>,
    <<"a","c","c","o","u","n","t","_","n","a","m","e">>,
    <<"a","c","c","o","u","n","t","n","a","m","e">>,
    <<"s","o","u","r","c","e">>,
    <<"e","x","t","e","r","n","a","l","_","i","d">>,
    <<"e","x","t","e","r","n","a","l","i","d">>,
    <<"i","d">>,
    <<"c","o","m","p","a","n","y","_","i","d">>,
    <<"c","o","m","p","a","n","y","i","d">>,
    <<"t","r","a","n","s","a","c","t","i","o","n","_","t","y","p","e">>,
    <<"t","r","a","n","s","a","c","t","i","o","n","t","y","p","e">>,
    <<"s","t","a","t","u","s">>,
    <<"c","u","r","r","e","n","c","y">>,
    <<"r","e","f","e","r","e","n","c","e">>,
    <<"c","a","t","e","g","o","r","y">>,
    <<"d","e","s","c","r","i","p","t","i","o","n">>,
    <<"n","o","t","e","s">>,
    <<"r","e","a","s","o","n">> }

\* the values of SensitiveFieldCategory, in declaration order
Categories == [i \in 1..Len(SENSITIVE_FIELD_PATTERNS) |-> SENSITIVE_FIELD_PATTERNS[i].category]

CategorySet == {Categories[i] : i \in 1..Len(Categories)}

TOKEN_PREFIXES ==
  [c \in CategorySet |->
     CASE c = "name" -> <<"E","N","T","I","T","Y">>
       [] c = "address" -> <<"A","D","D","R","E","S","S">>
       [] c = "email" -> <<"E","M","A","I","L">>
       [] c = "phone" -> <<"P","H","O","N","E">>
       [] c = "abn" -> <<"A","B","N">>
       [] c = "bank_account" -> <<"A","C","C","O","U","N","T">>
       [] c = "tax_number" -> <<"T","A","X","R","E","F">>]

\* the sentinel of redact mode
REDACTED == <<"[","R","E","D","A","C","T","E","D","]">>

\* ------------------------------------------------------------------------
\* DeIdentifier: classification, tokenization, tree walk
\* ------------------------------------------------------------------------

\* DeIdentifier.__init__: the fields of self the walk reads
NewDeIdentifier(ttl_seconds, extra_sensitive_fields, redact_mode) ==
  [ttl_seconds |-> ttl_seconds,
   extra_fields |-> [i \in 1..Len(extra_sensitive_fields) |->
                       Lower(extra_sensitive_fields[i])],
   redact_mode |-> redact_mode]

\* pat_normalised = re.sub(r"[^a-z0-9]", "", pattern.lower()), for every pattern
NormalisedPatterns ==
  [i \in 1..Len(SENSITIVE_FIELD_PATTERNS) |->
     [j \in 1..Len(SENSITIVE_FIELD_PATTERNS[i].patterns) |->
        Normalise(Lower(SENSITIVE_FIELD_PATTERNS[i].patterns[j]))]]

\* does category i have a pattern that equals or occurs in the normalised name
PatternHit(i, normalised) ==
  \E j \in 1..Len(NormalisedPatterns[i]) :
    LET pat_normalised == NormalisedPatterns[i][j]
    IN  normalised = pat_normalised \/ Contains(normalised, pat_normalised)

\* mutant: the extra fields are consulted before the allow-list
ClassifyFieldExtrasFirst(self, field_name) ==
  LET lower == Lower(field_name)
      normalised == Normalise(lower)
      hits == {i \in 1..Len(SENSITIVE_FIELD_PATTERNS) : PatternHit(i, normalised)}
  IN  IF \E k \in 1..Len(self.extra_fields) :
           Contains(normalised, self.extra_fields[k])
        THEN "name"
      ELSE IF lower \in FIELD_ALLOWLIST \/ normalised \in FIELD_ALLOWLIST
        THEN NoCategory
      ELSE IF hits # {}
        THEN Categories[CHOOSE i \in hits : \A j \in hits : i <= j]
      ELSE NoCategory

\* mutant: the last category with a matching pattern wins
ClassifyFieldLastWins(self, field_name) ==
  LET lower == Lower(field_name)
      normalised == Normalise(lower)
      hits == {i \in 1..Len(SENSITIVE_FIELD_PATTERNS) : PatternHit(i, normalised)}
  IN  IF lower \in FIELD_ALLOWLIST \/ normalised \in FIELD_ALLOWLIST
        THEN NoCategory
      ELSE IF \E k \in 1..Len(self.extra_fields) :
                Contains(normalised, self.extra_fields[k])
        THEN "name"
      ELSE IF hits # {}
        THEN Categories[CHOOSE i \in hits : \A j \in hits : i >= j]
      ELSE NoCategory

\* mutant: the allow-list is tested on the lower-cased name only
ClassifyFieldLowerOnly(self, field_name) ==
  LET lower == Lower(field_name)
      normalised == Normalise(lower)
      hits == {i \in 1..Len(SENSITIVE_FIELD_PATTERNS) : PatternHit(i, normalised)}
  IN  IF lower \in FIELD_ALLOWLIST
        THEN NoCategory
      ELSE IF \E k \in 1..Len(self.extra_fields) :
                Contains(normalised, self.extra_fields[k])
        THEN "name"
      ELSE IF hits # {}
        THEN Categories[CHOOSE i \in hits : \A j \in hits : i <= j]
      ELSE NoCategory

\* _classify_field
ClassifyField(self, field_name) ==
  LET lower == Lower(field_name)
      normalised == Normalise(lower)
      hits == {i \in 1..Len(SENSITIVE_FIELD_PATTERNS) : PatternHit(i, normalised)}
  IN  IF lower \in FIELD_ALLOWLIST \/ normalised \in FIELD_ALLOWLIST
        THEN NoCategory
      ELSE IF \E k \in 1..Len(self.extra_fields) :
                Contains(normalised, self.extra_fields[k])
        THEN "name"
      ELSE IF hits # {}
        THEN Categories[CHOOSE i \in hits : \A j \in hits : i <= j]
      ELSE NoCategory

\* DeIdentificationMap(vault_id, created_at, expires_at): entries is the dict
\* token -> VaultEntry in insertion order, reverse_index the dict real_value -> token
NewVault(vault_id, created_at, expires_at) ==
  [vault_id |-> vault_id, created_at |-> created_at, expires_at |-> expires_at,
   entity_count |-> 0, entries |-> <<>>, reverse_index |-> <<>>]

\* entries[token] = entry: a new key is appended, an existing key keeps its place
EntriesPut(entries, entry) ==
  IF \E i \in 1..Len(entries) : entries[i].token = entry.token
    THEN [i \in 1..Len(entries) |->
            IF entries[i].token = entry.token THEN entry ELSE entries[i]]
    ELSE Append(entries, entry)

\* mutant: the entity count is left out of the token
MintTokenNoCount(category, count) == TOKEN_PREFIXES[category] \o <<"_">> \o ZeroPad(1)

\* token = f"{prefix}_{vault.entity_count:03d}" (lines 369-370)
MintToken(category, count) == TOKEN_PREFIXES[category] \o <<"_">> \o ZeroPad(count)

\* mutant: the new entry is not recorded in the reverse index
MintEntryNoReverse(real_value, category, field_path, vault) ==
  LET count == vault.entity_count + 1
      token == MintToken(category, count)
      entry == [token |-> token, real_value |-> real_value,
                category |-> category, field_path |-> field_path]
  IN  [token |-> token,
       vault |-> [vault EXCEPT
                    !.entity_count = count,
                    !.entries = EntriesPut(vault.entries, entry)]]

\* mutant: the token carries the number of the entity within its category
MintEntryPerCategory(real_value, category, field_path, vault) ==
  LET count == vault.entity_count + 1
      same == {i \in 1..Len(vault.entries) : vault.entries[i].category = category}
      token == MintToken(category, Cardinality(same) + 1)
      entry == [token |-> token, real_value |-> real_value,
                category |-> category, field_path |-> field_path]
  IN  [token |-> token,
       vault |-> [vault EXCEPT
                    !.entity_count = count,
                    !.entries = EntriesPut(vault.entries, entry),
                    !.reverse_index = (real_value :> token) @@ vault.reverse_index]]

\* lines 368-380: count the entity, mint its token, record the entry in both indices
MintEntry(real_value, category, field_path, vault) ==
  LET count == vault.entity_count + 1
      token == MintToken(category, count)
      entry == [token |-> token, real_value |-> real_value,
                category |-> category, field_path |-> field_path]
  IN  [token |-> token,
       vault |-> [vault EXCEPT
                    !.entity_count = count,
                    !.entries = EntriesPut(vault.entries, entry),
                    !.reverse_index = (real_value :> token) @@ vault.reverse_index]]

\* mutant: the reverse index is not consulted, every occurrence mints a token
GetOrCreateTokenFresh(self, real_value, category, field_path, vault) ==
  IF self.redact_mode
    THEN [token |-> REDACTED, vault |-> vault]
    ELSE MintEntry(real_value, category, field_path, vault)

\* mutant: redact_mode is ignored, a reversible token is minted all the same
GetOrCreateTokenNoRedact(self, real_value, category, field_path, vault) ==
  IF real_value \in DOMAIN vault.reverse_index
    THEN [token |-> vault.reverse_index[real_value], vault |-> vault]
    ELSE MintEntry(real_value, category, field_path, vault)

\* _get_or_create_token: the token returned and the vault as it leaves it
GetOrCreateToken(self, real_value, category, field_path, vault) ==
  IF real_value \in DOMAIN vault.reverse_index
    THEN [token |-> vault.reverse_index[real_value], vault |-> vault]
  ELSE IF self.redact_mode
    THEN [token |-> REDACTED, vault |-> vault]
  ELSE MintEntry(real_value, category, field_path, vault)

\* is this map entry replaced by a token (line 318)
Tokenizable(category, value) ==
  category # NoCategory /\ value.t = "str" /\ Strip(value.v) # <<>>

\* _walk_and_tokenize: the sanitized node, with the vault and the counts as the
\* walk leaves them
RECURSIVE WalkAndTokenize(_, _, _, _, _)
RECURSIVE WalkList(_, _, _, _, _, _, _)
RECURSIVE WalkDict(_, _, _, _, _, _, _)

\* mutant: an empty list is not rebuilt, None is returned in its place
WalkAndTokenizeDropEmpty(self, node, vault, counts, path) ==
  CASE node.t = "null" -> [node |-> node, vault |-> vault, counts |-> counts]
    [] node.t = "list" /\ node.items = <<>> ->
         [node |-> JNull, vault |-> vault, counts |-> counts]
    [] node.t = "list" -> WalkList(self, node.items, 1, vault, counts, path, <<>>)
    [] node.t = "dict" -> WalkDict(self, node, 1, vault, counts, path, <<>>)
    [] OTHER -> [node |-> node, vault |-> vault, counts |-> counts]

WalkAndTokenize(self, node, vault, counts, path) ==
  CASE node.t = "null" -> [node |-> node, vault |-> vault, counts |-> counts]
    [] node.t = "list" -> WalkList(self, node.items, 1, vault, counts, path, <<>>)
    [] node.t = "dict" -> WalkDict(self, node, 1, vault, counts, path, <<>>)
    [] OTHER -> [node |-> node, vault |-> vault, counts |-> counts]

\* the list comprehension of lines 307-310, from item i on (i is 1-based here,
\* the path carries the 0-based index)
WalkList(self, items, i, vault, counts, path, done) ==
  IF i > Len(items)
    THEN [node |-> JList(done), vault |-> vault, counts |-> counts]
    ELSE LET r == WalkAndTokenize(self, items[i], vault, counts,
                                  path \o <<"[">> \o Decimal(i - 1) \o <<"]">>)
         IN  WalkList(self, items, i + 1, r.vault, r.counts, path, Append(done, r.node))

\* mutant: a field is counted only when its value is new to the vault
WalkDictCountNew(self, node, i, vault, counts, path, done) ==
  IF i > Len(node.keys)
    THEN [node |-> JDict(node.keys, done), vault |-> vault, counts |-> counts]
    ELSE LET key == node.keys[i]
             value == node.vals[i]
             field_path == path \o <<".">> \o key
             category == ClassifyField(self, key)
         IN  IF Tokenizable(category, value)
               THEN LET g == GetOrCreateToken(self, Strip(value.v), category,
                                              field_path, vault)
                    IN  WalkDict(self, node, i + 1, g.vault,
                                 IF Strip(value.v) \in DOMAIN vault.reverse_index
                                   THEN counts
                                   ELSE [counts EXCEPT ![category] = @ + 1],
                                 path, Append(done, JStr(g.token)))
               ELSE LET r == WalkAndTokenize(self, value, vault, counts, field_path)
                    IN  WalkDict(self, node, i + 1, r.vault, r.counts, path,
                                 Append(done, r.node))

\* mutant: under a sensitive key a value that is not tokenized is copied as it
\* is, without a walk into it
WalkDictShallow(self, node, i, vault, counts, path, done) ==
  IF i > Len(node.keys)
    THEN [node |-> JDict(node.keys, done), vault |-> vault, counts |-> counts]
    ELSE LET key == node.keys[i]
             value == node.vals[i]
             field_path == path \o <<".">> \o key
             category == ClassifyField(self, key)
         IN  IF Tokenizable(category, value)
               THEN LET g == GetOrCreateToken(self, Strip(value.v), category,
                                              field_path, vault)
                    IN  WalkDict(self, node, i + 1, g.vault,
                                 [counts EXCEPT ![category] = @ + 1], path,
                                 Append(done, JStr(g.token)))
             ELSE IF category # NoCategory
               THEN WalkDict(self, node, i + 1, vault, counts, path, Append(done, value))
               ELSE LET r == WalkAndTokenize(self, value, vault, counts, field_path)
                    IN  WalkDict(self, node, i + 1, r.vault, r.counts, path,
                                 Append(done, r.node))

\* the loop of lines 314-323, from entry i on
WalkDict(self, node, i, vault, counts, path, done) ==
  IF i > Len(node.keys)
    THEN [node |-> JDict(node.keys, done), vault |-> vault, counts |-> counts]
    ELSE LET key == node.keys[i]
             value == node.vals[i]
             field_path == path \o <<".">> \o key
             category == ClassifyField(self, key)
         IN  IF Tokenizable(category, value)
               THEN LET g == GetOrCreateToken(self, Strip(value.v), category,
                                              field_path, vault)
                    IN  WalkDict(self, node, i + 1, g.vault,
                                 [counts EXCEPT ![category] = @ + 1], path,
                                 Append(done, JStr(g.token)))
               ELSE LET r == WalkAndTokenize(self, value, vault, counts, field_path)
                    IN  WalkDict(self, node, i + 1, r.vault, r.counts, path,
                                 Append(done, r.node))

\* field_counts as de_identify creates it (line 256)
ZeroCounts == [c \in CategorySet |-> 0]

\* the root path
RootPath == <<"$">>

\* ------------------------------------------------------------------------
\* Re-identification: substitution
\* ------------------------------------------------------------------------

\* sorted(pairs, key=lambda pair: -len(pair[0])): stable, longest token first
RECURSIVE SortedByLength(_)
InsertByLength(sorted, pair) ==
  LET before == {i \in 1..Len(sorted) : Len(sorted[i][1]) >= Len(pair[1])}
      k == Cardinality(before)
  IN  SubSeq(sorted, 1, k) \o <<pair>> \o SubSeq(sorted, k + 1, Len(sorted))

SortedByLength(pairs) ==
  IF pairs = <<>> THEN <<>>
  ELSE InsertByLength(SortedByLength(SubSeq(pairs, 1, Len(pairs) - 1)),
                      pairs[Len(pairs)])

\* mutant: only the entry minted first is used
TokenPairsFirst(vault) ==
  SortedByLength([i \in 1..(IF vault.entries = <<>> THEN 0 ELSE 1) |->
                    <<vault.entries[i].token, vault.entries[i].real_value>>])

\* token_pairs of re_identify (lines 438-441)
TokenPairs(vault) ==
  SortedByLength([i \in 1..Len(vault.entries) |->
                    <<vault.entries[i].token, vault.entries[i].real_value>>])

\* _replace_tokens_in_string, from pair i on
RECURSIVE ReplaceFrom(_, _, _)
ReplaceFrom(result, token_pairs, i) ==
  IF i > Len(token_pairs) THEN result
  ELSE LET token == token_pairs[i][1]
           real_value == token_pairs[i][2]
       IN  ReplaceFrom(IF Contains(result, token)
                         THEN StrReplace(result, token, real_value)
                         ELSE result,
                       token_pairs, i + 1)

ReplaceTokensInString(text, token_pairs) == ReplaceFrom(text, token_pairs, 1)

\* _walk_and_replace
RECURSIVE WalkAndReplace(_, _)
WalkAndReplace(node, token_pairs) ==
  CASE node.t = "null" -> node
    [] node.t = "str" -> JStr(ReplaceTokensInString(node.v, token_pairs))
    [] node.t = "list" ->
         JList([i \in 1..Len(node.items) |-> WalkAndReplace(node.items[i], token_pairs)])
    [] node.t = "dict" ->
         JDict(node.keys,
               [i \in 1..Len(node.vals) |-> WalkAndReplace(node.vals[i], token_pairs)])
    [] OTHER -> node

\* ------------------------------------------------------------------------
\* State
\* ------------------------------------------------------------------------

VARIABLES
  store,           \* _vault_store: vault id -> DeIdentificationMap
  now,             \* the clock datetime.utcnow() reads
  minted,          \* how many vault ids de_identify has drawn so far
  pc,              \* per request thread: where its current call stands
  loc,             \* per request thread: the locals of its current call
  last,            \* history: the call that ended most recently, and what it returned
  swpc,            \* the cleanup thread: "sleep" or "scan"
  swnow,           \* the cleanup thread's local  now
  ops,             \* calls started so far
  src,             \* history: vault id -> the engine and data it was built from
  removedBy,       \* history: vault id -> the path that removed it from the store
  returned,        \* history: vault id -> re_identify calls with destroy_after
                   \*   that returned output for it
  expired_raised,  \* history: vault id -> re_identify calls that raised Expired
  kept,            \* history: the vault ids for which a re_identify call without
                   \*   destroy_after returned output
  cleanup_started, \* _cleanup_started
  cleanup_threads, \* how many cleanup threads have been started
  ipc,             \* per thread: where its DeIdentifier.__init__ call stands
  instances,       \* DeIdentifier instances whose construction has begun
  pin,             \* function checks: the input drawn
  pout,            \* function checks: the results computed from pin
  stage            \* function checks: what has been applied

protoVars ==
  <<store, now, minted, pc, loc, last, swpc, swnow, ops, src, removedBy, returned,
    expired_raised, kept>>

initVars == <<cleanup_started, cleanup_threads, ipc, instances>>

pureVars == <<pin, pout, stage>>

vars == <<protoVars, initVars, pureVars>>

\* ------------------------------------------------------------------------
\* Bounds and inputs of the store protocol
\* ------------------------------------------------------------------------

\* the request threads; a call runs on the first one that is free
Threads == {1, 2}

\* calls started, over all request threads
MaxOps == 3

\* the clock stops here
MaxTime == 1

\* vaults created
MaxVaults == 2

\* ttl_seconds, in clock ticks
TTLs == {0, 1}

S_Al == <<"A","l">>
S_Bo == <<"B","o">>
K_name == <<"n","a","m","e">>
K_email == <<"e","m","a","i","l">>
K_id == <<"i","d">>
T_ENTITY_001 == <<"E","N","T","I","T","Y","_","0","0","1">>
T_EMAIL_002 == <<"E","M","A","I","L","_","0","0","2">>

\* records handed to de_identify
ProtoData ==
  { JDict(<<K_name, K_email>>, <<JStr(S_Al), JStr(S_Bo)>>),
    JList(<<JDict(<<K_id, K_name>>, <<JNum(7), JStr(S_Al)>>)>>) }

\* analysis output handed to re_identify
ProtoOutputs ==
  { JDict(<<K_id>>, <<JStr(T_ENTITY_001 \o <<" ">> \o T_EMAIL_002)>>) }

\* an identifier no de_identify call ever returned
UnknownId == 0

\* the identifiers a caller can hold: those a completed de_identify returned
IssuedIds == DOMAIN store \cup DOMAIN removedBy

\* Optional[...]: None is the empty sequence
None == <<>>
Some(x) == <<x>>

IdleLoc ==
  [op |-> "none", self |-> None, data |-> None, events |-> <<>>, idx |-> 0,
   vault_id |-> UnknownId, vault |-> None, counts |-> None,
   destroy_after |-> FALSE, removed_at_start |-> FALSE,
   returned_at_start |-> FALSE, kept_at_start |-> FALSE, result |-> None,
   outcome |-> "none"]

\* the thread that takes the next call
FirstIdle(t) == pc[t] = "idle" /\ \A u \in Threads : pc[u] = "idle" => t <= u

\* history: a call that has ended, with what it returned or raised
Ended(l, outcome, result) ==
  [IdleLoc EXCEPT !.op = l.op, !.vault_id = l.vault_id,
                  !.data = IF l.op = "re_identify" THEN l.data ELSE None,
                  !.vault = IF l.op = "get_vault" THEN l.vault ELSE None,
                  !.destroy_after = l.destroy_after,
                  !.removed_at_start = l.removed_at_start,
                  !.returned_at_start = l.returned_at_start,
                  !.kept_at_start = l.kept_at_start,
                  !.result = result, !.outcome = outcome]

\* ------------------------------------------------------------------------
\* The vault store
\* ------------------------------------------------------------------------

\* mutant: identifiers come from a counter that starts over
NewVaultIdReused(count) == 1

\* vault_id = f"vault_{secrets.token_hex(16)}": 128 random bits, taken as an
\* identifier never drawn before
NewVaultId(count) == count + 1

\* mutant: the store is rebuilt from the new vault alone (a lost update)
StorePutLossy(s, vault) == [id \in {vault.vault_id} |-> vault]

\* _vault_store[vault_id] = vault
StorePut(s, vault) ==
  [id \in DOMAIN s \cup {vault.vault_id} |->
     IF id = vault.vault_id THEN vault ELSE s[id]]

\* _vault_store.get(vault_id)
StoreGet(s, vault_id) == IF vault_id \in DOMAIN s THEN Some(s[vault_id]) ELSE None

\* mutant: the vault is read and left in the store
StorePopKeep(s, vault_id) == s

\* _vault_store.pop(vault_id, None): the store afterwards
StorePop(s, vault_id) == [id \in DOMAIN s \ {vault_id} |-> s[id]]

\* expired = [vid for vid, v in _vault_store.items() if v.expires_at < now]
ExpiredIds(s, at) == {id \in DOMAIN s : s[id].expires_at < at}

\* mutant: the scan deletes every vault, expired or not
StoreSweepAll(s, at) == <<>>

\* mutant: the scan deletes nothing
StoreSweepNone(s, at) == s

\* for vid in expired: del _vault_store[vid]
StoreSweep(s, at) == [id \in DOMAIN s \ ExpiredIds(s, at) |-> s[id]]

\* history: the ids of  gone  leave the store by  path
Removed(gone, path) ==
  [id \in DOMAIN removedBy \cup gone |->
     IF id \in DOMAIN removedBy THEN removedBy[id] ELSE path]

\* history: one more call counted for vault_id
Counted(f, vault_id) ==
  [id \in DOMAIN f \cup {vault_id} |->
     IF id # vault_id THEN f[id] ELSE IF id \in DOMAIN f THEN f[id] + 1 ELSE 1]

\* the calls to _get_or_create_token that one walk makes, in order (lines 314-319)
RECURSIVE WalkEvents(_, _, _)
RECURSIVE ListEvents(_, _, _, _)
RECURSIVE DictEvents(_, _, _, _)

WalkEvents(self, node, path) ==
  CASE node.t = "list" -> ListEvents(self, node.items, 1, path)
    [] node.t = "dict" -> DictEvents(self, node, 1, path)
    [] OTHER -> <<>>

ListEvents(self, items, i, path) ==
  IF i > Len(items) THEN <<>>
  ELSE WalkEvents(self, items[i], path \o <<"[">> \o Decimal(i - 1) \o <<"]">>)
       \o ListEvents(self, items, i + 1, path)

DictEvents(self, node, i, path) ==
  IF i > Len(node.keys) THEN <<>>
  ELSE LET field_path == path \o <<".">> \o node.keys[i]
           category == ClassifyField(self, node.keys[i])
       IN  (IF Tokenizable(category, node.vals[i])
              THEN <<[real_value |-> Strip(node.vals[i].v), category |-> category,
                      field_path |-> field_path]>>
              ELSE WalkEvents(self, node.vals[i], field_path))
           \o DictEvents(self, node, i + 1, path)

\* ------------------------------------------------------------------------
\* de_identify
\* ------------------------------------------------------------------------

\* mutant: the vault is put into the store when it is created, before the walk
DeIdStartEager(t, ttl, redact, data) ==
  /\ FirstIdle(t)
  /\ ops < MaxOps
  /\ minted < MaxVaults
  /\ LET self == NewDeIdentifier(ttl, <<>>, redact)
         vault_id == NewVaultId(minted)
         vault == NewVault(vault_id, now, now + self.ttl_seconds)
     IN  /\ loc' = [loc EXCEPT ![t] =
                      [IdleLoc EXCEPT !.op = "de_identify", !.self = Some(self),
                                      !.data = Some(data),
                                      !.events = WalkEvents(self, data, RootPath),
                                      !.vault_id = vault_id, !.vault = Some(vault),
                                      !.counts = Some(ZeroCounts)]]
         /\ src' = StorePut(src, [vault_id |-> vault_id, self |-> self, data |-> data])
         /\ store' = StorePut(store, vault)
  /\ minted' = minted + 1
  /\ ops' = ops + 1
  /\ pc' = [pc EXCEPT ![t] = "walk"]
  /\ UNCHANGED <<now, last, swpc, swnow, removedBy, returned, expired_raised, kept, initVars, pureVars>>

\* lines 247-256: draw the id, read the clock, create the vault and the counts
DeIdStart(t, ttl, redact, data) ==
  /\ FirstIdle(t)
  /\ ops < MaxOps
  /\ minted < MaxVaults
  /\ LET self == NewDeIdentifier(ttl, <<>>, redact)
         vault_id == NewVaultId(minted)
         vault == NewVault(vault_id, now, now + self.ttl_seconds)
     IN  /\ loc' = [loc EXCEPT ![t] =
                      [IdleLoc EXCEPT !.op = "de_identify", !.self = Some(self),
                                      !.data = Some(data),
                                      !.events = WalkEvents(self, data, RootPath),
                                      !.vault_id = vault_id, !.vault = Some(vault),
                                      !.counts = Some(ZeroCounts)]]
         /\ src' = StorePut(src, [vault_id |-> vault_id, self |-> self, data |-> data])
  /\ minted' = minted + 1
  /\ ops' = ops + 1
  /\ pc' = [pc EXCEPT ![t] = "walk"]
  /\ UNCHANGED <<store, now, last, swpc, swnow, removedBy, returned, expired_raised,
                 kept, initVars, pureVars>>

\* line 259, one map entry at a time: the next call of _get_or_create_token
DeIdTokenize(t) ==
  /\ pc[t] = "walk"
  /\ loc[t].idx < Len(loc[t].events)
  /\ LET e == loc[t].events[loc[t].idx + 1]
         g == GetOrCreateToken(loc[t].self[1], e.real_value, e.category,
                               e.field_path, loc[t].vault[1])
     IN  loc' = [loc EXCEPT ![t].idx = @ + 1,
                            ![t].vault = Some(g.vault),
                            ![t].counts = Some([loc[t].counts[1] EXCEPT
                                                  ![e.category] = @ + 1])]
  /\ UNCHANGED <<store, now, minted, pc, last, swpc, swnow, ops, src, removedBy,
                 returned, expired_raised, kept, initVars, pureVars>>

\* lines 261-277: register the vault under the lock and return the result
DeIdRegister(t) ==
  /\ pc[t] = "walk"
  /\ loc[t].idx = Len(loc[t].events)
  /\ store' = StorePut(store, loc[t].vault[1])
  /\ last' = Ended(loc[t], "ok",
                   Some(WalkAndTokenize(loc[t].self[1], loc[t].data[1],
                                        NewVault(loc[t].vault_id,
                                                 loc[t].vault[1].created_at,
                                                 loc[t].vault[1].expires_at),
                                        ZeroCounts, RootPath).node))
  /\ loc' = [loc EXCEPT ![t] = IdleLoc]
  /\ pc' = [pc EXCEPT ![t] = "idle"]
  /\ UNCHANGED <<now, minted, swpc, swnow, ops, src, removedBy, returned,
                 expired_raised, kept, initVars, pureVars>>

\* the call is abandoned during the walk (an exception or a cancellation
\* unwinds it): the vault it was building is dropped with its frame
DeIdAbort(t) ==
  /\ pc[t] = "walk"
  /\ loc[t].idx < Len(loc[t].events)
  /\ last' = Ended(loc[t], "aborted", None)
  /\ loc' = [loc EXCEPT ![t] = IdleLoc]
  /\ pc' = [pc EXCEPT ![t] = "idle"]
  /\ UNCHANGED <<store, now, minted, swpc, swnow, ops, src, removedBy, returned,
                 expired_raised, kept, initVars, pureVars>>

\* ------------------------------------------------------------------------
\* get_vault, destroy_vault
\* ------------------------------------------------------------------------

GetVault(t, vault_id) ==
  /\ FirstIdle(t)
  /\ ops < MaxOps
  /\ last' = Ended([IdleLoc EXCEPT !.op = "get_vault", !.vault_id = vault_id,
                                   !.removed_at_start = vault_id \in DOMAIN removedBy,
                                   !.vault = StoreGet(store, vault_id)],
                   "ok", None)
  /\ ops' = ops + 1
  /\ UNCHANGED <<store, now, minted, pc, loc, swpc, swnow, src, removedBy, returned,
                 expired_raised, kept, initVars, pureVars>>

DestroyVault(t, vault_id) ==
  /\ FirstIdle(t)
  /\ ops < MaxOps
  /\ store' = StorePop(store, vault_id)
  /\ removedBy' = Removed(DOMAIN store \cap {vault_id}, "destroy_vault")
  /\ last' = Ended([IdleLoc EXCEPT !.op = "destroy_vault", !.vault_id = vault_id,
                                   !.removed_at_start = vault_id \in DOMAIN removedBy],
                   IF StoreGet(store, vault_id) # None THEN "true" ELSE "false", None)
  /\ ops' = ops + 1
  /\ UNCHANGED <<now, minted, pc, loc, swpc, swnow, src, returned, expired_raised,
                 kept, initVars, pureVars>>

\* ------------------------------------------------------------------------
\* re_identify
\* ------------------------------------------------------------------------

\* lines 420-427: look the vault up under the lock; Not-found if it is absent
ReIdLookup(t, analysis_output, vault_id, destroy_after) ==
  /\ FirstIdle(t)
  /\ ops < MaxOps
  /\ LET vault == StoreGet(store, vault_id)
         l == [IdleLoc EXCEPT !.op = "re_identify", !.vault_id = vault_id,
                              !.data = Some(analysis_output),
                              !.destroy_after = destroy_after,
                              !.removed_at_start = vault_id \in DOMAIN removedBy,
                              !.returned_at_start = vault_id \in DOMAIN returned,
                              !.kept_at_start = vault_id \in kept,
                              !.vault = vault]
     IN  IF vault = None
           THEN /\ last' = Ended(l, "not_found", None)
                /\ UNCHANGED <<pc, loc>>
           ELSE /\ loc' = [loc EXCEPT ![t] = l]
                /\ pc' = [pc EXCEPT ![t] = "check"]
                /\ UNCHANGED last
  /\ ops' = ops + 1
  /\ UNCHANGED <<store, now, minted, swpc, swnow, src, removedBy, returned,
                 expired_raised, kept, initVars, pureVars>>

\* mutant: the vault is removed whether destroy_after is set or not
ReIdCheckDestroys(t) ==
  /\ pc[t] = "check"
  /\ LET result == Some(WalkAndReplace(loc[t].data[1], TokenPairs(loc[t].vault[1])))
     IN  IF loc[t].vault[1].expires_at < now
           THEN /\ pc' = [pc EXCEPT ![t] = "expire"]
                /\ UNCHANGED <<loc, last, kept, store, removedBy>>
         ELSE IF loc[t].destroy_after
           THEN /\ pc' = [pc EXCEPT ![t] = "destroy"]
                /\ loc' = [loc EXCEPT ![t].result = result]
                /\ UNCHANGED <<last, kept, store, removedBy>>
         ELSE /\ pc' = [pc EXCEPT ![t] = "idle"]
              /\ loc' = [loc EXCEPT ![t] = IdleLoc]
              /\ last' = Ended(loc[t], "ok", result)
              /\ kept' = kept \cup {loc[t].vault_id}
              /\ store' = StorePop(store, loc[t].vault_id)
              /\ removedBy' = Removed(DOMAIN store \cap {loc[t].vault_id}, "re_identify")
  /\ UNCHANGED <<now, minted, swpc, swnow, ops, src, returned, expired_raised,
                 initVars, pureVars>>

\* lines 429 and 437-448: read the clock; if the vault has not expired,
\* substitute; without destroy_after the call returns here
ReIdCheck(t) ==
  /\ pc[t] = "check"
  /\ LET result == Some(WalkAndReplace(loc[t].data[1], TokenPairs(loc[t].vault[1])))
     IN  IF loc[t].vault[1].expires_at < now
           THEN /\ pc' = [pc EXCEPT ![t] = "expire"]
                /\ UNCHANGED <<loc, last, kept>>
         ELSE IF loc[t].destroy_after
           THEN /\ pc' = [pc EXCEPT ![t] = "destroy"]
                /\ loc' = [loc EXCEPT ![t].result = result]
                /\ UNCHANGED <<last, kept>>
         ELSE /\ pc' = [pc EXCEPT ![t] = "idle"]
              /\ loc' = [loc EXCEPT ![t] = IdleLoc]
              /\ last' = Ended(loc[t], "ok", result)
              /\ kept' = kept \cup {loc[t].vault_id}
  /\ UNCHANGED <<now, minted, swpc, swnow, ops, src, store, removedBy, returned, expired_raised,
                 initVars, pureVars>>

\* lines 430-435: remove the expired vault under the lock and raise Expired
ReIdExpire(t) ==
  /\ pc[t] = "expire"
  /\ store' = StorePop(store, loc[t].vault_id)
  /\ removedBy' = Removed(DOMAIN store \cap {loc[t].vault_id}, "re_identify_expired")
  /\ expired_raised' = Counted(expired_raised, loc[t].vault_id)
  /\ last' = Ended(loc[t], "expired", None)
  /\ loc' = [loc EXCEPT ![t] = IdleLoc]
  /\ pc' = [pc EXCEPT ![t] = "idle"]
  /\ UNCHANGED <<now, minted, swpc, swnow, ops, src, returned, kept, initVars, pureVars>>

\* mutant: destroy_after is ignored, the result is returned and the vault stays
ReIdDestroyKeep(t) ==
  /\ pc[t] = "destroy"
  /\ returned' = Counted(returned, loc[t].vault_id)
  /\ last' = Ended(loc[t], "ok", loc[t].result)
  /\ loc' = [loc EXCEPT ![t] = IdleLoc]
  /\ pc' = [pc EXCEPT ![t] = "idle"]
  /\ UNCHANGED <<store, removedBy, now, minted, swpc, swnow, ops, src, expired_raised,
                 kept, initVars, pureVars>>

\* lines 450-454: remove the vault under the lock and return the result
ReIdDestroy(t) ==
  /\ pc[t] = "destroy"
  /\ store' = StorePop(store, loc[t].vault_id)
  /\ removedBy' = Removed(DOMAIN store \cap {loc[t].vault_id}, "re_identify")
  /\ returned' = Counted(returned, loc[t].vault_id)
  /\ last' = Ended(loc[t], "ok", loc[t].result)
  /\ loc' = [loc EXCEPT ![t] = IdleLoc]
  /\ pc' = [pc EXCEPT ![t] = "idle"]
  /\ UNCHANGED <<now, minted, swpc, swnow, ops, src, expired_raised, kept, initVars, pureVars>>

\* ------------------------------------------------------------------------
\* The cleanup thread and the clock
\* ------------------------------------------------------------------------

\* lines 177-178: the sleep ends and the thread reads the clock
SweepWake ==
  /\ swpc = "sleep"
  /\ swnow' = now
  /\ swpc' = "scan"
  /\ UNCHANGED <<store, now, minted, pc, loc, last, ops, src, removedBy, returned,
                 expired_raised, kept, initVars, pureVars>>

\* lines 179-184: under the lock, delete every vault that expired before the
\* time read; the local is dead once the scan is over
SweepScan ==
  /\ swpc = "scan"
  /\ store' = StoreSweep(store, swnow)
  /\ removedBy' = Removed(ExpiredIds(store, swnow), "sweep")
  /\ swpc' = "sleep"
  /\ swnow' = 0
  /\ UNCHANGED <<now, minted, pc, loc, last, ops, src, returned, expired_raised,
                 kept, initVars, pureVars>>

\* time passes
Tick ==
  /\ now < MaxTime
  /\ now' = now + 1
  /\ UNCHANGED <<store, minted, pc, loc, last, swpc, swnow, ops, src, removedBy,
                 returned, expired_raised, kept, initVars, pureVars>>

\* ------------------------------------------------------------------------
\* get_vault_stats
\* ------------------------------------------------------------------------

\* sum(len(v.entries) for v in _vault_store.values())
RECURSIVE TotalTokens(_, _)
TotalTokens(s, ids) ==
  IF ids = {} THEN 0
  ELSE LET id == CHOOSE i \in ids : TRUE
       IN  Len(s[id].entries) + TotalTokens(s, ids \ {id})

\* ages = [(now - v.created_at).total_seconds() for v in _vault_store.values()]
Ages(s, at) == {at - s[id].created_at : id \in DOMAIN s}

\* mutant: the age of the youngest vault is reported
VaultStatsYoungest(s, at) ==
  [active_vaults |-> Cardinality(DOMAIN s),
   total_tokens_stored |-> TotalTokens(s, DOMAIN s),
   oldest_vault_age_seconds |->
     IF Ages(s, at) = {} THEN None
     ELSE Some(CHOOSE m \in Ages(s, at) : \A a \in Ages(s, at) : m <= a)]

\* the dict get_vault_stats returns (lines 532-540), for the store and the clock
\* it reads under the lock
VaultStats(s, at) ==
  [active_vaults |-> Cardinality(DOMAIN s),
   total_tokens_stored |-> TotalTokens(s, DOMAIN s),
   oldest_vault_age_seconds |->
     IF Ages(s, at) = {} THEN None
     ELSE Some(CHOOSE m \in Ages(s, at) : \A a \in Ages(s, at) : a <= m)]

\* get_vault_stats: the whole body runs under the lock
GetVaultStats(t) ==
  /\ FirstIdle(t)
  /\ ops < MaxOps
  /\ last' = Ended([IdleLoc EXCEPT !.op = "get_vault_stats"], "ok",
                   Some(VaultStats(store, now)))
  /\ ops' = ops + 1
  /\ UNCHANGED <<store, now, minted, pc, loc, swpc, swnow, src, removedBy, returned,
                 expired_raised, kept, initVars, pureVars>>

\* ------------------------------------------------------------------------
\* The store protocol
\* ------------------------------------------------------------------------

ProtoInit ==
  /\ store = <<>>
  /\ now = 0
  /\ minted = 0
  /\ pc = [t \in Threads |-> "idle"]
  /\ loc = [t \in Threads |-> IdleLoc]
  /\ last = IdleLoc
  /\ swpc = "sleep"
  /\ swnow = 0
  /\ ops = 0
  /\ src = <<>>
  /\ removedBy = <<>>
  /\ returned = <<>>
  /\ expired_raised = <<>>
  /\ kept = {}

PureIdle ==
  /\ pin = None
  /\ pout = None
  /\ stage = "none"

\* the threads that construct DeIdentifier instances
Constructors == {1, 2, 3}

\* the first DeIdentifier has been constructed: the flag is set and the cleanup
\* thread runs
Constructed ==
  /\ cleanup_started = TRUE
  /\ cleanup_threads = 1
  /\ ipc = [t \in Constructors |-> "idle"]
  /\ instances = 1

Init == ProtoInit /\ Constructed /\ PureIdle

Next ==
  \/ \E t \in Threads, ttl \in TTLs, data \in ProtoData : DeIdStart(t, ttl, FALSE, data)
  \/ \E t \in Threads : DeIdTokenize(t)
  \/ \E t \in Threads : DeIdRegister(t)
  \/ \E t \in Threads : DeIdAbort(t)
  \/ \E t \in Threads, id \in IssuedIds \cup {UnknownId} : GetVault(t, id)
  \/ \E t \in Threads, id \in IssuedIds \cup {UnknownId} : DestroyVault(t, id)
  \/ \E t \in Threads, out \in ProtoOutputs, id \in IssuedIds \cup {UnknownId},
        da \in BOOLEAN : ReIdLookup(t, out, id, da)
  \/ \E t \in Threads : GetVaultStats(t)
  \/ \E t \in Threads : ReIdCheck(t)
  \/ \E t \in Threads : ReIdExpire(t)
  \/ \E t \in Threads : ReIdDestroy(t)
  \/ SweepWake
  \/ SweepScan
  \/ Tick

Spec == Init /\ [][Next]_vars

\* the cleanup thread is a daemon thread that loops forever: the scheduler lets
\* its sleep end and lets it take the lock
SpecLive == Spec /\ WF_vars(SweepWake) /\ WF_vars(SweepScan)

\* ------------------------------------------------------------------------
\* Properties of the store protocol
\* ------------------------------------------------------------------------

\* the vault a completed de_identify call builds for this identifier
CompleteVault(id, created_at, expires_at) ==
  WalkAndTokenize(src[id].self, src[id].data, NewVault(id, created_at, expires_at),
                  ZeroCounts, RootPath).vault

\* what re_identify owes for this output and this vault
Restored(analysis_output, vault) == WalkAndReplace(analysis_output, TokenPairs(vault))

\* the threads inside a re_identify call
ReIdCalls == {t \in Threads : loc[t].op = "re_identify"}

\* C3: single-use default. A re_identify call with destroy_after that passed the
\* lookup and the expiry check returns the substituted output and leaves the
\* vault out of the store; a call that starts after such a return fails with
\* Not-found at its lookup.
C3_SingleUseDefault ==
  /\ \A id \in DOMAIN returned : id \notin DOMAIN store
  /\ \A t \in ReIdCalls :
       /\ ~loc[t].returned_at_start
       /\ pc[t] = "destroy" =>
            loc[t].result = Some(Restored(loc[t].data[1], loc[t].vault[1]))
  /\ last.op = "re_identify" =>
       /\ (last.destroy_after /\ last.outcome = "ok") =>
            /\ last.vault_id \in DOMAIN returned
            /\ last.result =
                 Some(Restored(last.data[1], CompleteVault(last.vault_id, 0, 0)))
       /\ last.returned_at_start =>
            (last.outcome = "not_found" /\ last.result = None)

\* C3 witness: a second call with the default options, started after a first one
\* returned output for the same vault, has failed with Not-found
C3_Witness ==
  /\ last.op = "re_identify"
  /\ last.returned_at_start /\ last.destroy_after /\ last.outcome = "not_found"

\* C5: a removed identifier is permanently invalid. An identifier that left the
\* store is never in it again, and a re_identify call that starts after the
\* removal fails with Not-found at its lookup and returns nothing.
C5_RemovedIsInvalid ==
  /\ DOMAIN removedBy \cap DOMAIN store = {}
  /\ \A t \in ReIdCalls : ~loc[t].removed_at_start
  /\ (last.op = "re_identify" /\ last.removed_at_start) =>
       (last.outcome = "not_found" /\ last.result = None)

\* C5 witness: a re_identify call on a vault the sweep had removed
C5_Witness ==
  /\ last.op = "re_identify" /\ last.removed_at_start
  /\ removedBy[last.vault_id] = "sweep"
  /\ last.outcome = "not_found"

\* C6: Expired, then Not-found. A call that raised Expired has removed the vault
\* and returned nothing, a call that starts after the removal fails with
\* Not-found, and Expired is raised at most once for any one vault.
C6_ExpiredOnce ==
  /\ (last.op = "re_identify" /\ last.outcome = "expired") =>
       (last.vault_id \notin DOMAIN store /\ last.result = None)
  /\ (last.op = "re_identify" /\ last.removed_at_start) => last.outcome = "not_found"
  /\ \A id \in DOMAIN expired_raised : expired_raised[id] <= 1

\* C7: single use under concurrency. At most one re_identify call with
\* destroy_after returns output for any one vault.
C7_SingleUseConcurrent ==
  \A id \in DOMAIN returned : returned[id] <= 1

\* C8: the store under concurrency. In every step a registered vault stays
\* registered, unchanged, under its identifier unless a removal path removes it in
\* that step; a registration puts the vault into the store; and a sweep scan
\* removes exactly the vaults that expired before the time it read.
C8_StoreSafe ==
  [][ /\ \A id \in DOMAIN store :
           \/ id \in DOMAIN store' /\ store'[id] = store[id]
           \/ id \notin DOMAIN removedBy /\ id \in DOMAIN removedBy'
      /\ \A t \in Threads :
           (pc[t] = "walk" /\ pc'[t] = "idle" /\ last'.outcome = "ok") =>
             (loc[t].vault_id \in DOMAIN store'
                /\ store'[loc[t].vault_id] = loc[t].vault[1])
      /\ (swpc = "scan" /\ swpc' = "sleep") =>
           DOMAIN store' = {id \in DOMAIN store : ~(store[id].expires_at < swnow)}
    ]_vars

\* C8 witness: two vaults, registered by two calls, are both in the store
C8_Witness ==
  /\ Cardinality(DOMAIN store) = 2
  /\ last.op = "de_identify" /\ last.outcome = "ok"

\* C9: sweep liveness. A registered vault whose expiry has passed is eventually
\* out of the store.
C9_SweepLiveness ==
  \A id \in 1..MaxVaults :
    (id \in DOMAIN store /\ store[id].expires_at < now) ~> (id \notin DOMAIN store)

\* C9 witness: the sweep removed an expired vault for which no call was ever made
C9_Witness ==
  /\ \E id \in DOMAIN removedBy : removedBy[id] = "sweep"
  /\ ops = 1

\* C10: registration is the commit point of de_identify. Every vault in the
\* store, and every vault a get_vault or re_identify call got from it, is the
\* complete vault of its walk; the vault of a call still walking is not in the
\* store; and the vault of an aborted call never reaches the store.
C10_AtomicRegistration ==
  /\ \A id \in DOMAIN store :
       store[id] = CompleteVault(id, store[id].created_at, store[id].expires_at)
  /\ \A t \in Threads : pc[t] = "walk" => loc[t].vault_id \notin IssuedIds
  /\ \A t \in ReIdCalls :
       loc[t].vault[1] = CompleteVault(loc[t].vault_id, loc[t].vault[1].created_at,
                                       loc[t].vault[1].expires_at)
  /\ (last.op = "get_vault" /\ last.vault # None) =>
       last.vault[1] = CompleteVault(last.vault_id, last.vault[1].created_at,
                                     last.vault[1].expires_at)
  /\ last.outcome = "aborted" => last.vault_id \notin IssuedIds

\* C10 witness: a call is in the middle of its walk, its vault half built, and
\* the last call to end was a get_vault that found a vault
C10_Witness ==
  /\ \E t \in Threads :
       pc[t] = "walk" /\ 0 < loc[t].idx /\ loc[t].idx < Len(loc[t].events)
  /\ last.op = "get_vault" /\ last.vault # None

\* C15: re_identify without destroy_after leaves the store as it is. Its lookup
\* and its return change nothing in the store; unless the vault has expired when
\* the call reads the clock, the call returns the substituted output, which is a
\* function of the input and the entries alone; and a call that starts after
\* such a return on the same vault returns output too, unless the vault was
\* removed before the call started or has expired.
C15_KeepLeavesStore ==
  [][ /\ \A t \in Threads :
           /\ (pc[t] = "idle" /\ pc'[t] = "check") => store' = store
           /\ (pc[t] = "check" /\ pc'[t] # "check" /\ ~loc[t].destroy_after) =>
                IF loc[t].vault[1].expires_at < now
                  THEN pc'[t] = "expire"
                  ELSE /\ store' = store
                       /\ last'.op = "re_identify" /\ last'.outcome = "ok"
                       /\ last'.result =
                            Some(Restored(loc[t].data[1], loc[t].vault[1]))
      /\ (last'.op = "re_identify" /\ ~last'.destroy_after) =>
           /\ last'.outcome = "ok" =>
                last'.result =
                  Some(Restored(last'.data[1], CompleteVault(last'.vault_id, 0, 0)))
           /\ last'.kept_at_start =>
                \/ last'.outcome = "ok"
                \/ last'.outcome = "not_found" /\ last'.removed_at_start
                \/ last'.outcome = "expired"
    ]_vars

\* C15 witness: a re_identify call without destroy_after, started after another
\* one had returned output for the same vault, returned output, and the vault is
\* in the store
C15_Witness ==
  /\ last.op = "re_identify" /\ ~last.destroy_after
  /\ last.kept_at_start /\ last.outcome = "ok"
  /\ last.vault_id \in DOMAIN store

\* the entries held by the registered vaults, one pair per entry
StoredEntries ==
  UNION {{<<id, i>> : i \in 1..Len(store[id].entries)} : id \in DOMAIN store}

\* C16: the stats query is one snapshot. In the step in which get_vault_stats
\* returns, active_vaults is the number of vaults in the store, total_tokens_stored
\* the number of entries they hold together, and oldest_vault_age_seconds the
\* greatest age among those vaults at the time of the step, None for an empty
\* store; the step changes neither the store nor the clock.
C16_StatsSnapshot ==
  [][ (last'.op = "get_vault_stats" /\ ops' = ops + 1 /\ pc' = pc) =>
        LET stats == last'.result[1]
        IN  /\ store' = store /\ now' = now
            /\ stats.active_vaults = Cardinality(DOMAIN store)
            /\ stats.total_tokens_stored = Cardinality(StoredEntries)
            /\ DOMAIN store = {} <=> stats.oldest_vault_age_seconds = None
            /\ DOMAIN store # {} =>
                 /\ \E id \in DOMAIN store :
                      stats.oldest_vault_age_seconds = Some(now - store[id].created_at)
                 /\ \A id \in DOMAIN store :
                      now - store[id].created_at <= stats.oldest_vault_age_seconds[1]
    ]_vars

\* C16 witness: the stats query ran on a store of two vaults of different ages
\* that hold entries
C16_Witness ==
  /\ last.op = "get_vault_stats"
  /\ last.result[1].active_vaults = 2
  /\ last.result[1].total_tokens_stored > 2
  /\ \E id, other \in DOMAIN store : store[id].created_at # store[other].created_at

\* the strings a value holds, at any depth
RECURSIVE StringsOf(_)
StringsOf(node) ==
  CASE node.t = "str" -> {node.v}
    [] node.t = "list" -> UNION {StringsOf(node.items[i]) : i \in 1..Len(node.items)}
    [] node.t = "dict" -> UNION {StringsOf(node.vals[i]) : i \in 1..Len(node.vals)}
    [] OTHER -> {}

\* no token of the vault occurs in the value
NoTokenLeft(node, vault) ==
  \A text \in StringsOf(node), i \in 1..Len(vault.entries) :
    ~Contains(text, vault.entries[i].token)

\* C17: no partial recovery. Whatever destroy_vault calls, other re_identify
\* calls and sweep scans run while a re_identify call is under way, the call
\* ends with Not-found or Expired and returns nothing, or it returns the output
\* substituted with all the entries of the complete vault, in which no token of
\* the vault is left.
C17_NoPartialRecovery ==
  /\ \A t \in ReIdCalls :
       pc[t] = "destroy" =>
         /\ loc[t].result =
              Some(Restored(loc[t].data[1], CompleteVault(loc[t].vault_id, 0, 0)))
         /\ NoTokenLeft(loc[t].result[1], CompleteVault(loc[t].vault_id, 0, 0))
  /\ last.op = "re_identify" =>
       /\ last.outcome \in {"ok", "not_found", "expired"}
       /\ last.outcome # "ok" => last.result = None
       /\ last.outcome = "ok" =>
            /\ last.result =
                 Some(Restored(last.data[1], CompleteVault(last.vault_id, 0, 0)))
            /\ NoTokenLeft(last.result[1], CompleteVault(last.vault_id, 0, 0))

\* C17 witness: a re_identify call returned output for a vault of two entries
\* that a destroy_vault call removed while the call was under way
C17_Witness ==
  /\ last.op = "re_identify" /\ last.outcome = "ok"
  /\ last.vault_id \in DOMAIN removedBy
  /\ removedBy[last.vault_id] = "destroy_vault"
  /\ Len(CompleteVault(last.vault_id, 0, 0).entries) = 2

\* the step is a scan of the cleanup thread
IsSweepStep == swpc = "scan" /\ swpc' = "sleep"

\* the step is the return of a re_identify call on id that removes the vault
\* after the substitution (lines 450-454)
IsReIdDestroyStep(id) ==
  \E t \in Threads :
    pc[t] = "destroy" /\ pc'[t] = "idle" /\ loc[t].vault_id = id /\ loc[t].destroy_after

\* the step is the end of a re_identify call on id that found the vault expired
\* (lines 430-435)
IsReIdExpireStep(id, destroy_after) ==
  \E t \in Threads :
    /\ pc[t] = "expire" /\ pc'[t] = "idle" /\ loc[t].vault_id = id
    /\ loc[t].destroy_after = destroy_after

\* the step is a destroy_vault call on id
IsDestroyVaultStep(id) ==
  /\ ops' = ops + 1 /\ pc' = pc
  /\ last'.op = "destroy_vault" /\ last'.vault_id = id

\* the vaults the step removes from the store
Leaving == DOMAIN store \ DOMAIN store'

\* a vault whose expiry has not passed is not removed by the sweep; it is removed
\* only by re_identify with destroy_after or by destroy_vault, on its own id
LiveVaultPaths(id) ==
  ~(store[id].expires_at < now) =>
    /\ ~IsSweepStep
    /\ IsReIdDestroyStep(id) \/ IsDestroyVaultStep(id)

\* C19 as claimed: a vault leaves the store only by the sweep after its expiry, by
\* a re_identify call with destroy_after on its identifier, or by a destroy_vault
\* call on its identifier; a vault whose expiry has not passed is never removed
\* by the sweep.
C19_ThreePaths ==
  [][ \A id \in Leaving :
        /\ \/ IsSweepStep /\ store[id].expires_at < now
           \/ IsReIdDestroyStep(id)
           \/ IsReIdExpireStep(id, TRUE)
           \/ IsDestroyVaultStep(id)
        /\ LiveVaultPaths(id)
    ]_vars

\* C19 as amended: a vault leaves the store only by the sweep after its expiry, by
\* a re_identify call with destroy_after on its identifier, by a destroy_vault
\* call on its identifier, or by a re_identify call on its identifier, with
\* destroy_after or without, that finds its expiry passed; a vault whose expiry
\* has not passed is never removed by the sweep, only by re_identify with
\* destroy_after or destroy_vault on its own identifier.
C19_RemovalPaths ==
  [][ \A id \in Leaving :
        /\ \/ IsSweepStep /\ store[id].expires_at < now
           \/ IsReIdDestroyStep(id)
           \/ \E da \in BOOLEAN : IsReIdExpireStep(id, da) /\ store[id].expires_at < now
           \/ IsDestroyVaultStep(id)
        /\ LiveVaultPaths(id)
    ]_vars

\* C19 witness: a re_identify call without destroy_after found its vault expired
\* and removed it, and another vault, whose expiry has not passed, is still in
\* the store
C19_Witness ==
  /\ last.op = "re_identify" /\ ~last.destroy_after /\ last.outcome = "expired"
  /\ last.vault_id \in DOMAIN removedBy
  /\ removedBy[last.vault_id] = "re_identify_expired"
  /\ \E other \in DOMAIN store : ~(store[other].expires_at < now)

\* C22: a registered vault is immutable until removal. No step (the walk or the
\* registration of another de_identify call, re_identify, get_vault,
\* destroy_vault on another id, the stats query, the sweep, the clock) changes
\* the entries, the reverse index, the entity counter, the creation time or the
\* expiry of a vault that is in the store before the step and after it.
C22_RegisteredImmutable ==
  [][ \A id \in DOMAIN store \cap DOMAIN store' :
        /\ store'[id].entries = store[id].entries
        /\ store'[id].reverse_index = store[id].reverse_index
        /\ store'[id].entity_count = store[id].entity_count
        /\ store'[id].expires_at = store[id].expires_at
        /\ store'[id] = store[id]
    ]_vars

\* C22 witness: a vault with entries is registered, a re_identify call has
\* returned output from it, and another de_identify call is in its walk and has
\* written an entry into the vault it is building
C22_Witness ==
  \E id \in DOMAIN store :
    /\ store[id].entity_count >= 1
    /\ store[id] = CompleteVault(id, store[id].created_at, store[id].expires_at)
    /\ last.op = "re_identify" /\ last.vault_id = id /\ last.outcome = "ok"
    /\ \E t \in Threads :
         /\ pc[t] = "walk" /\ loc[t].vault_id # id
         /\ loc[t].vault[1].entity_count >= 1

\* C30: destroy_vault reports removal exactly once. A destroy_vault call on id
\* returns True or False; True when, and only when, a vault was registered under
\* id at the call, and the call removed it: it is gone after the call, and no
\* call or sweep had removed it before, so that of the calls on one id, in any
\* interleaving, the first that finds the vault returns True and no other does.
\* A call on an absent id returns False and leaves the store as it was. The
\* vaults under other ids stay.
C30_DestroyReportsOnce ==
  [][ \A id \in IssuedIds \cup {UnknownId} :
        IsDestroyVaultStep(id) =>
          /\ last'.outcome \in {"true", "false"}
          /\ last'.outcome = "true" <=> id \in DOMAIN store
          /\ last'.outcome = "true" =>
               /\ id \notin DOMAIN store'
               /\ id \notin DOMAIN removedBy
               /\ id \in DOMAIN removedBy' /\ removedBy'[id] = "destroy_vault"
          /\ last'.outcome = "false" => store' = store /\ removedBy' = removedBy
          /\ DOMAIN store' = DOMAIN store \ {id}
          /\ \A other \in DOMAIN store' : store'[other] = store[other]
    ]_vars

\* C30 witness: a destroy_vault call returned False on an id whose vault an
\* earlier destroy_vault call had removed
C30_Witness ==
  /\ last.op = "destroy_vault"
  /\ last.outcome = "false"
  /\ last.removed_at_start
  /\ last.vault_id \in DOMAIN removedBy
  /\ removedBy[last.vault_id] = "destroy_vault"
  /\ last.vault_id \notin DOMAIN store

\* ------------------------------------------------------------------------
\* Construction of DeIdentifier instances: _start_cleanup_thread
\* ------------------------------------------------------------------------

\* instances constructed, over all threads
MaxInstances == 4

\* lines 222-224: a thread enters __init__ and sets the fields of self
InitFields(t) ==
  /\ ipc[t] = "idle"
  /\ instances < MaxInstances
  /\ instances' = instances + 1
  /\ ipc' = [ipc EXCEPT ![t] = "check"]
  /\ UNCHANGED <<cleanup_started, cleanup_threads, protoVars, pureVars>>

\* lines 171-172: read the flag; return if it is set. No lock is held.
StartCheck(t) ==
  /\ ipc[t] = "check"
  /\ ipc' = [ipc EXCEPT ![t] = IF cleanup_started THEN "idle" ELSE "set"]
  /\ UNCHANGED <<cleanup_started, cleanup_threads, instances, protoVars, pureVars>>

\* line 173: set the flag
StartSet(t) ==
  /\ ipc[t] = "set"
  /\ cleanup_started' = TRUE
  /\ ipc' = [ipc EXCEPT ![t] = "start"]
  /\ UNCHANGED <<cleanup_threads, instances, protoVars, pureVars>>

\* lines 186-187: create the daemon thread and start it
StartThread(t) ==
  /\ ipc[t] = "start"
  /\ cleanup_threads' = cleanup_threads + 1
  /\ ipc' = [ipc EXCEPT ![t] = "idle"]
  /\ UNCHANGED <<cleanup_started, instances, protoVars, pureVars>>

\* the process before any DeIdentifier is constructed
ConstructInit ==
  /\ ProtoInit /\ PureIdle
  /\ cleanup_started = FALSE
  /\ cleanup_threads = 0
  /\ ipc = [t \in Constructors |-> "idle"]
  /\ instances = 0

ConstructNext ==
  \/ \E t \in Constructors : InitFields(t)
  \/ \E t \in Constructors : StartCheck(t)
  \/ \E t \in Constructors : StartSet(t)
  \/ \E t \in Constructors : StartThread(t)

SpecConstruct == ConstructInit /\ [][ConstructNext]_vars

\* C18: one sweep task. However many DeIdentifier instances are constructed, from
\* one thread or from several at a time, at most one cleanup thread is started.
C18_OneCleanupThread == cleanup_threads <= 1

\* the same for constructions that do not overlap: once a construction has set
\* the flag, a construction that begins afterwards starts no thread (this holds)
C18_SetFlagStartsNoThread ==
  [][ \A t \in Constructors :
        (ipc[t] = "check" /\ cleanup_started /\ ipc'[t] # "check") => ipc'[t] = "idle"
    ]_vars

\* ------------------------------------------------------------------------
\* de_identify and re_identify as functions of their input
\* ------------------------------------------------------------------------

\* sum(field_counts.values())
RECURSIVE SumCounts(_, _)
SumCounts(counts, i) ==
  IF i > Len(Categories) THEN 0 ELSE counts[Categories[i]] + SumCounts(counts, i + 1)

\* de_identify, start to end: the DeIdentificationResult, and the vault it
\* registers
DeIdentify(self, data, vault_id, at) ==
  LET r == WalkAndTokenize(self, data,
                           NewVault(vault_id, at, at + self.ttl_seconds),
                           ZeroCounts, RootPath)
  IN  [vault_id |-> vault_id, sanitized_data |-> r.node, field_counts |-> r.counts,
       total_tokenized |-> SumCounts(r.counts, 1), vault |-> r.vault]

\* ------------------------------------------------------------------------
\* The walk over objects: which lists and dicts it reads, creates and writes
\* ------------------------------------------------------------------------

\* a reference to the list or dict at an address of the heap; None, strings and
\* numbers are immutable and are held as they are
Ref(i) == [t |-> "ref", at |-> i]

\* the objects of an argument: every list and dict of the value gets an address
RECURSIVE Encode(_, _)
RECURSIVE EncodeSeq(_, _, _, _)

Encode(value, heap) ==
  CASE value.t = "list" ->
         LET r == EncodeSeq(value.items, 1, heap, <<>>)
         IN  [cell |-> Ref(Len(r.heap) + 1),
              heap |-> Append(r.heap, [t |-> "list", items |-> r.cells])]
    [] value.t = "dict" ->
         LET r == EncodeSeq(value.vals, 1, heap, <<>>)
         IN  [cell |-> Ref(Len(r.heap) + 1),
              heap |-> Append(r.heap, [t |-> "dict", keys |-> value.keys,
                                       vals |-> r.cells])]
    [] OTHER -> [cell |-> value, heap |-> heap]

EncodeSeq(values, i, heap, cells) ==
  IF i > Len(values) THEN [cells |-> cells, heap |-> heap]
  ELSE LET r == Encode(values[i], heap)
       IN  EncodeSeq(values, i + 1, r.heap, Append(cells, r.cell))

\* mutant: the walk fills the dict it was given instead of a new one
ReuseNodeDict(heap, node_at) == [at |-> node_at, heap |-> heap]

\* result: dict[str, Any] = {} (line 313): a new, empty dict
NewResultDict(heap, node_at) ==
  [at |-> Len(heap) + 1,
   heap |-> Append(heap, [t |-> "dict", keys |-> <<>>, vals |-> <<>>])]

\* result[key] = cell (lines 321, 323), on the dict at an address
DictSet(heap, at, key, cell) ==
  LET d == heap[at]
      hit == {i \in 1..Len(d.keys) : d.keys[i] = key}
  IN  [heap EXCEPT ![at] =
         IF hit = {}
           THEN [d EXCEPT !.keys = Append(@, key), !.vals = Append(@, cell)]
           ELSE [d EXCEPT !.vals = [i \in 1..Len(d.vals) |->
                                      IF i \in hit THEN cell ELSE d.vals[i]]]]

\* _walk_and_tokenize on objects: the cell returned, and the heap, the vault and
\* the counts as the walk leaves them
RECURSIVE HeapWalk(_, _, _, _, _, _)
RECURSIVE HeapWalkList(_, _, _, _, _, _, _, _)
RECURSIVE HeapWalkDict(_, _, _, _, _, _, _, _)

HeapWalk(self, heap, cell, vault, counts, path) ==
  IF cell.t # "ref"
    THEN [cell |-> cell, heap |-> heap, vault |-> vault, counts |-> counts]
  ELSE IF heap[cell.at].t = "list"
    THEN HeapWalkList(self, heap, heap[cell.at].items, 1, vault, counts, path, <<>>)
  ELSE LET result == NewResultDict(heap, cell.at)
       IN  HeapWalkDict(self, result.heap, heap[cell.at], result.at, 1, vault, counts,
                        path)

\* the list comprehension of lines 307-310: the items are walked, then put into
\* a new list
HeapWalkList(self, heap, items, i, vault, counts, path, done) ==
  IF i > Len(items)
    THEN [cell |-> Ref(Len(heap) + 1),
          heap |-> Append(heap, [t |-> "list", items |-> done]),
          vault |-> vault, counts |-> counts]
    ELSE LET r == HeapWalk(self, heap, items[i], vault, counts,
                           path \o <<"[">> \o Decimal(i - 1) \o <<"]">>)
         IN  HeapWalkList(self, r.heap, items, i + 1, r.vault, r.counts, path,
                          Append(done, r.cell))

\* the loop of lines 314-323 over the entries of node, writing to the dict at
\* result_at
HeapWalkDict(self, heap, node, result_at, i, vault, counts, path) ==
  IF i > Len(node.keys)
    THEN [cell |-> Ref(result_at), heap |-> heap, vault |-> vault, counts |-> counts]
    ELSE LET key == node.keys[i]
             value == node.vals[i]
             field_path == path \o <<".">> \o key
             category == ClassifyField(self, key)
         IN  IF Tokenizable(category, value)
               THEN LET g == GetOrCreateToken(self, Strip(value.v), category,
                                              field_path, vault)
                    IN  HeapWalkDict(self, DictSet(heap, result_at, key, JStr(g.token)),
                                     node, result_at, i + 1, g.vault,
                                     [counts EXCEPT ![category] = @ + 1], path)
               ELSE LET r == HeapWalk(self, heap, value, vault, counts, field_path)
                    IN  HeapWalkDict(self, DictSet(r.heap, result_at, key, r.cell),
                                     node, result_at, i + 1, r.vault, r.counts, path)

\* de_identify on objects: the argument, the heap before the call, the
\* sanitized data returned and the heap after the call
HeapDeIdentify(self, data, vault_id, at) ==
  LET e == Encode(data, <<>>)
      r == HeapWalk(self, e.heap, e.cell, NewVault(vault_id, at, at + self.ttl_seconds),
                    ZeroCounts, RootPath)
  IN  [data |-> e.cell, before |-> e.heap, sanitized_data |-> r.cell, after |-> r.heap]

\* the value held at a cell
RECURSIVE Decode(_, _)
Decode(heap, cell) ==
  IF cell.t # "ref" THEN cell
  ELSE IF heap[cell.at].t = "list"
    THEN JList([i \in 1..Len(heap[cell.at].items) |-> Decode(heap, heap[cell.at].items[i])])
  ELSE JDict(heap[cell.at].keys,
             [i \in 1..Len(heap[cell.at].vals) |-> Decode(heap, heap[cell.at].vals[i])])

\* the addresses of the lists and dicts reachable from a cell
RECURSIVE Reach(_, _)
Reach(heap, cell) ==
  IF cell.t # "ref" THEN {}
  ELSE LET cells == IF heap[cell.at].t = "list" THEN heap[cell.at].items
                    ELSE heap[cell.at].vals
       IN  {cell.at} \cup UNION {Reach(heap, cells[i]) : i \in 1..Len(cells)}

S_Al_padded == <<" ","A","l">>
S_blank == <<" ">>
K_notes == <<"n","o","t","e","s">>
K_contact == <<"c","o","n","t","a","c","t">>

\* field values of the records drawn
WalkValues ==
  { JStr(S_Al), JStr(S_Al_padded), JStr(S_Bo), JStr(T_ENTITY_001), JStr(S_blank),
    JNull, JNum(7) }

\* the records drawn: a flat one with two sensitive keys and an allow-listed
\* one, a nested one, one with an empty dict and an empty list, and one with a
\* list and a dict under sensitive keys
WalkData ==
  { JDict(<<K_name, K_email, K_notes>>, <<a, b, c>>) :
      a \in WalkValues, b \in WalkValues, c \in WalkValues }
  \cup
  { JList(<<JDict(<<K_name>>, <<a>>),
            JDict(<<K_contact>>, <<JDict(<<K_email, K_name>>, <<b, c>>)>>)>>) :
      a \in WalkValues, b \in WalkValues, c \in WalkValues }
  \cup
  { JList(<<JDict(<<>>, <<>>),
            JDict(<<K_notes, K_id, K_name>>, <<a, JList(<<>>), b>>)>>) :
      a \in WalkValues, b \in WalkValues }
  \cup
  { JList(<<a, JDict(<<K_name, K_email>>,
                     <<JList(<<b, JNull, JStr(S_Al)>>),
                       JDict(<<K_name, K_id>>, <<a, JNum(7)>>)>>)>>) :
      a \in WalkValues, b \in WalkValues }

WalkInit ==
  /\ ProtoInit /\ Constructed
  /\ pin \in {Some([self |-> NewDeIdentifier(1, <<>>, redact), data |-> data]) :
                redact \in BOOLEAN, data \in WalkData}
  /\ pout = None
  /\ stage = "input"

\* result = engine.de_identify(data)
PureDeIdentify ==
  /\ stage = "input"
  /\ pout' = Some([result |-> DeIdentify(pin[1].self, pin[1].data, 1, 0),
                   objects |-> HeapDeIdentify(pin[1].self, pin[1].data, 1, 0),
                   restored |-> None])
  /\ stage' = "sanitized"
  /\ UNCHANGED <<pin, protoVars, initVars>>

\* re_identify(result.sanitized_data, result.vault_id, destroy_after=False), the
\* vault being live
PureReIdentify ==
  /\ stage = "sanitized"
  /\ pout' = Some([pout[1] EXCEPT
                     !.restored = Some(WalkAndReplace(pout[1].result.sanitized_data,
                                                      TokenPairs(pout[1].result.vault)))])
  /\ stage' = "restored"
  /\ UNCHANGED <<pin, protoVars, initVars>>

WalkNext == PureDeIdentify \/ PureReIdentify

SpecWalk == WalkInit /\ [][WalkNext]_vars

\* every map entry of a value, at any depth, with its path
RECURSIVE Fields(_, _)
Fields(node, path) ==
  CASE node.t = "list" ->
         UNION {Fields(node.items[i], path \o <<"[">> \o Decimal(i - 1) \o <<"]">>) :
                  i \in 1..Len(node.items)}
    [] node.t = "dict" ->
         UNION {{[path |-> path \o <<".">> \o node.keys[i], key |-> node.keys[i],
                  value |-> node.vals[i]]}
                \cup Fields(node.vals[i], path \o <<".">> \o node.keys[i]) :
                  i \in 1..Len(node.keys)}
    [] OTHER -> {}

\* the value a tree holds at a path
ValueAt(node, path) ==
  (CHOOSE f \in Fields(node, RootPath) : f.path = path).value

\* the map entries of the input that the walk replaces by a token
SensitiveFields ==
  {f \in Fields(pin[1].data, RootPath) :
     Tokenizable(ClassifyField(pin[1].self, f.key), f.value)}

\* the token the sanitized output holds at a path
TokenAt(path) == ValueAt(pout[1].result.sanitized_data, path).v

\* C1: round trip. In normal mode re_identify(S, V, destroy_after=False) of the
\* sanitized data S gives back the input: every tokenized field holds the
\* original string and every other field its value.
C1_RoundTrip ==
  (stage = "restored" /\ ~pin[1].self.redact_mode) =>
    pout[1].restored[1] = pin[1].data

\* C2 as claimed: the same original string at two sensitive fields gets the same
\* token, and in normal mode two different original strings never get the same
\* token.
C2_IdempotentMapping ==
  stage = "sanitized" =>
    \A f, g \in SensitiveFields :
      /\ f.value.v = g.value.v => TokenAt(f.path) = TokenAt(g.path)
      /\ (~pin[1].self.redact_mode /\ f.value.v # g.value.v) =>
           TokenAt(f.path) # TokenAt(g.path)

\* C2 as amended: the same original string at two sensitive fields gets the same
\* token, and in normal mode two original strings that differ after their
\* surrounding whitespace is trimmed never get the same token.
C2_IdempotentMappingTrimmed ==
  stage = "sanitized" =>
    \A f, g \in SensitiveFields :
      /\ f.value.v = g.value.v => TokenAt(f.path) = TokenAt(g.path)
      /\ (~pin[1].self.redact_mode /\ Strip(f.value.v) # Strip(g.value.v)) =>
           TokenAt(f.path) # TokenAt(g.path)

\* C2 witness: in normal mode one string sits under two keys of different
\* categories, and another sensitive field holds a different string
C2_Witness ==
  /\ stage = "sanitized"
  /\ ~pin[1].self.redact_mode
  /\ \E f, g, h \in SensitiveFields :
       /\ f.path # g.path
       /\ f.value.v = g.value.v
       /\ ClassifyField(pin[1].self, f.key) # ClassifyField(pin[1].self, g.key)
       /\ Strip(h.value.v) # Strip(f.value.v)

\* do two inputs have the same shape and the same values everywhere but under
\* sensitive keys. With  tokenized_only  the values under a sensitive key may
\* differ only where both are strings the walk replaces (line 318); any other
\* value under a sensitive key is compared like the rest of the tree.
RECURSIVE SameButSensitive(_, _, _, _)
SameButSensitive(self, a, b, tokenized_only) ==
  CASE a.t = "list" /\ b.t = "list" ->
         /\ Len(a.items) = Len(b.items)
         /\ \A i \in 1..Len(a.items) :
              SameButSensitive(self, a.items[i], b.items[i], tokenized_only)
    [] a.t = "dict" /\ b.t = "dict" ->
         /\ a.keys = b.keys
         /\ \A i \in 1..Len(a.keys) :
              LET category == ClassifyField(self, a.keys[i])
              IN  IF category = NoCategory
                    THEN SameButSensitive(self, a.vals[i], b.vals[i], tokenized_only)
                  ELSE IF ~tokenized_only THEN TRUE
                  ELSE \/ Tokenizable(category, a.vals[i]) /\ Tokenizable(category, b.vals[i])
                       \/ SameButSensitive(self, a.vals[i], b.vals[i], tokenized_only)
    [] OTHER -> a = b

\* the map entries of the input under a sensitive key
SensitiveKeyFields ==
  {f \in Fields(pin[1].data, RootPath) : ClassifyField(pin[1].self, f.key) # NoCategory}

C13_ArgumentUntouched ==
  stage \in {"sanitized", "restored"} =>
    LET o == pout[1].objects
    IN  /\ \A i \in 1..Len(o.before) : o.after[i] = o.before[i]
        /\ Decode(o.after, o.data) = pin[1].data
        /\ Reach(o.after, o.sanitized_data) \cap Reach(o.before, o.data) = {}
        /\ \A i \in Reach(o.after, o.sanitized_data) : i > Len(o.before)
        /\ Decode(o.after, o.sanitized_data) = pout[1].result.sanitized_data

\* C13 witness: the argument is a list of dicts, one nested in another, with
\* a field that was tokenized, and the call has returned
C13_Witness ==
  /\ stage = "sanitized"
  /\ Cardinality(Reach(pout[1].objects.before, pout[1].objects.data)) = 4
  /\ Cardinality(Reach(pout[1].objects.after, pout[1].objects.sanitized_data)) = 4
  /\ SensitiveFields # {}
  /\ pout[1].result.sanitized_data # pin[1].data

\* the strings a walk puts in place of values: the tokens of its vault, and the
\* sentinel
TokensOf(vault) == {vault.entries[i].token : i \in 1..Len(vault.entries)} \cup {REDACTED}

\* does  out  have the shape of  node : the same nesting, lists of the same
\* length in the same order, dicts with the same keys in the same order, and at
\* every place either the same value or, for a string held by a dict, a token
RECURSIVE Isomorphic(_, _, _)
Isomorphic(node, out, tokens) ==
  CASE node.t = "list" ->
         /\ out.t = "list"
         /\ Len(out.items) = Len(node.items)
         /\ \A i \in 1..Len(node.items) : Isomorphic(node.items[i], out.items[i], tokens)
    [] node.t = "dict" ->
         /\ out.t = "dict"
         /\ out.keys = node.keys
         /\ Len(out.vals) = Len(node.vals)
         /\ \A i \in 1..Len(node.keys) :
              \/ Isomorphic(node.vals[i], out.vals[i], tokens)
              \/ /\ node.vals[i].t = "str"
                 /\ out.vals[i].t = "str"
                 /\ out.vals[i].v \in tokens
    [] OTHER -> out = node

\* C14: the walk keeps the shape. The sanitized data has the nesting of the
\* input, lists of the same length in the same order, dicts with the same keys
\* in the same order, empty lists and dicts included; a value the walk did not
\* replace by a token is the input value: every string, number and None that
\* is not a non-blank string under a sensitive key is in the output as it was.
C14_Isomorphic ==
  stage \in {"sanitized", "restored"} =>
    /\ Isomorphic(pin[1].data, pout[1].result.sanitized_data,
                  TokensOf(pout[1].result.vault))
    /\ \A f \in Fields(pin[1].data, RootPath) :
         f \notin SensitiveFields =>
           \/ f.value.t \in {"list", "dict"}
           \/ ValueAt(pout[1].result.sanitized_data, f.path) = f.value

\* C14 witness: the input holds an empty dict, an empty list, a string that was
\* replaced by a token and a string that was not
C14_Witness ==
  /\ stage = "sanitized"
  /\ pin[1].data.t = "list" /\ pin[1].data.items[1] = JDict(<<>>, <<>>)
  /\ pout[1].result.sanitized_data.items[1] = JDict(<<>>, <<>>)
  /\ \E f \in Fields(pin[1].data, RootPath) : f.value = JList(<<>>)
  /\ SensitiveFields # {}
  /\ \E f \in Fields(pin[1].data, RootPath) : f.key = K_notes /\ f.value = JStr(S_Al)

\* every value of a tree, at any depth, with its path, what holds it (the
\* root, a list or a dict) and, in a dict, its key
RECURSIVE Places(_, _, _, _)
Places(node, path, holder, key) ==
  {[path |-> path, holder |-> holder, key |-> key, value |-> node]}
  \cup
  CASE node.t = "list" ->
         UNION {Places(node.items[i], path \o <<"[">> \o Decimal(i - 1) \o <<"]">>,
                       "list", <<>>) : i \in 1..Len(node.items)}
    [] node.t = "dict" ->
         UNION {Places(node.vals[i], path \o <<".">> \o node.keys[i],
                       "dict", node.keys[i]) : i \in 1..Len(node.keys)}
    [] OTHER -> {}

\* is the value at a place of the input a string directly under a sensitive key
\* of a dict, with something other than whitespace in it
TokenizedPlace(p) ==
  /\ p.holder = "dict"
  /\ ClassifyField(pin[1].self, p.key) # NoCategory
  /\ p.value.t = "str"
  /\ Strip(p.value.v) # <<>>

\* C26: only string values directly under a sensitive map key are tokenized.
\* Every place of the input is a place of the output. A string that is an
\* element of a list is there as it was, also when the list is the value of a
\* sensitive key; a list or a dict under a sensitive key is walked: it is there
\* with its length, and the places in it follow the same rule; None is there as
\* None, and every other value that is not a string under a sensitive key is
\* there as it was. The vault records tokenized places only.
C26_OnlyStringsUnderKeys ==
  stage = "sanitized" =>
    LET ins == Places(pin[1].data, RootPath, "root", <<>>)
        outs == Places(pout[1].result.sanitized_data, RootPath, "root", <<>>)
        vault == pout[1].result.vault
    IN  /\ \A p \in ins :
             \E q \in outs :
               /\ q.path = p.path /\ q.holder = p.holder /\ q.key = p.key
               /\ IF TokenizedPlace(p)
                    THEN q.value.t = "str" /\ q.value.v \in TokensOf(vault)
                  ELSE IF p.value.t = "list"
                    THEN q.value.t = "list" /\ Len(q.value.items) = Len(p.value.items)
                  ELSE IF p.value.t = "dict"
                    THEN q.value.t = "dict" /\ q.value.keys = p.value.keys
                  ELSE q.value = p.value
        /\ {p.path : p \in outs} = {p.path : p \in ins}
        /\ \A i \in 1..Len(vault.entries) :
             \E p \in ins : TokenizedPlace(p) /\ p.path = vault.entries[i].field_path

\* C26 witness: ["Al", {"name": ["Bo", None, "Al"], "email": {"name": "Al",
\* "id": 7}}] came back, in normal mode, with a token at email.name alone
C26_Witness ==
  /\ stage = "sanitized"
  /\ ~pin[1].self.redact_mode
  /\ pin[1].data =
       JList(<<JStr(S_Al),
               JDict(<<K_name, K_email>>,
                     <<JList(<<JStr(S_Bo), JNull, JStr(S_Al)>>),
                       JDict(<<K_name, K_id>>, <<JStr(S_Al), JNum(7)>>)>>)>>)
  /\ pout[1].result.sanitized_data =
       JList(<<JStr(S_Al),
               JDict(<<K_name, K_email>>,
                     <<JList(<<JStr(S_Bo), JNull, JStr(S_Al)>>),
                       JDict(<<K_name, K_id>>, <<JStr(T_ENTITY_001), JNum(7)>>)>>)>>)
  /\ Len(pout[1].result.vault.entries) = 1

\* the map entries of the input whose key classifies as category c and whose
\* value is a string, a non-empty one or one with a character that is not
\* whitespace
StringFieldsOf(c, trimmed) ==
  {f \in Fields(pin[1].data, RootPath) :
     /\ ClassifyField(pin[1].self, f.key) = c
     /\ f.value.t = "str"
     /\ IF trimmed THEN Strip(f.value.v) # <<>> ELSE f.value.v # <<>>}

\* the counts of the result, summed over the categories
CountsTotal ==
  LET counts == pout[1].result.field_counts
  IN  counts["name"] + counts["address"] + counts["email"] + counts["phone"]
      + counts["abn"] + counts["bank_account"] + counts["tax_number"]

\* the counts of the result are the numbers of the string fields of each
\* category, each of these fields holds a token in the output, and
\* total_tokenized is the sum of the counts and at least the entity counter
CountsAre(trimmed) ==
  /\ DOMAIN pout[1].result.field_counts = CategorySet
  /\ \A c \in CategorySet :
       /\ pout[1].result.field_counts[c] = Cardinality(StringFieldsOf(c, trimmed))
       /\ \A f \in StringFieldsOf(c, trimmed) :
            TokenAt(f.path) \in TokensOf(pout[1].result.vault)
  /\ pout[1].result.total_tokenized = CountsTotal
  /\ pout[1].result.total_tokenized >= pout[1].result.vault.entity_count

\* C27 as claimed: per-category counts. After de_identify the count of every
\* category c is the number of map entries whose key classified as c and whose
\* value was a non-empty string, each of them replaced by a token and counted
\* once, repeated values included; total_tokenized is the sum over the
\* categories and at least the entity counter of the vault.
C27_CategoryCounts == stage = "sanitized" => CountsAre(FALSE)

\* C27 as amended: the same with, in place of the non-empty strings, the strings
\* that hold a character other than whitespace.
C27_CategoryCountsTrimmed == stage = "sanitized" => CountsAre(TRUE)

\* C27 witness: in normal mode "Al" sits under two name keys and "Bo" under an
\* email key: the counts are 2 and 1, the total 3, the entity counter 2
C27_Witness ==
  /\ stage = "sanitized"
  /\ ~pin[1].self.redact_mode
  /\ pin[1].data =
       JList(<<JDict(<<K_name>>, <<JStr(S_Al)>>),
               JDict(<<K_contact>>,
                     <<JDict(<<K_email, K_name>>, <<JStr(S_Bo), JStr(S_Al)>>)>>)>>)
  /\ pout[1].result.field_counts["name"] = 2
  /\ pout[1].result.field_counts["email"] = 1
  /\ pout[1].result.total_tokenized = 3
  /\ pout[1].result.vault.entity_count = 2

\* ------------------------------------------------------------------------
\* The construction of a vault, one tokenization at a time
\* ------------------------------------------------------------------------

TokenizeInit ==
  /\ ProtoInit /\ Constructed
  /\ pin \in {Some([self |-> NewDeIdentifier(1, <<>>, redact), data |-> data,
                     events |-> WalkEvents(NewDeIdentifier(1, <<>>, redact), data,
                                           RootPath)]) :
                redact \in BOOLEAN, data \in WalkData}
  /\ pout = Some([vault |-> NewVault(1, 0, 1), idx |-> 0, token |-> None])
  /\ stage = "tokenizing"

\* the next call of _get_or_create_token of the walk (line 319)
TokenizeStep ==
  /\ stage = "tokenizing"
  /\ pout[1].idx < Len(pin[1].events)
  /\ LET e == pin[1].events[pout[1].idx + 1]
         g == GetOrCreateToken(pin[1].self, e.real_value, e.category, e.field_path,
                               pout[1].vault)
     IN  pout' = Some([vault |-> g.vault, idx |-> pout[1].idx + 1,
                       token |-> Some(g.token)])
  /\ UNCHANGED <<pin, stage, protoVars, initVars>>

TokenizeNext == TokenizeStep

SpecTokenize == TokenizeInit /\ [][TokenizeNext]_vars

\* C20: bindings are stable and entries are append-only. A tokenization step
\* leaves the entries as they are or appends one entry whose token no entry had;
\* every entry that was there is still there, with its token, original value,
\* category and path, and every original of the reverse index keeps its token.
C20_AppendOnly ==
  [][ (stage = "tokenizing" /\ pout' # pout) =>
        LET old == pout[1].vault
            new == pout'[1].vault
        IN  /\ Len(new.entries) \in {Len(old.entries), Len(old.entries) + 1}
            /\ \A i \in 1..Len(old.entries) : new.entries[i] = old.entries[i]
            /\ Len(new.entries) = Len(old.entries) + 1 =>
                 \A i \in 1..Len(old.entries) :
                   old.entries[i].token # new.entries[Len(new.entries)].token
            /\ \A v \in DOMAIN old.reverse_index :
                 v \in DOMAIN new.reverse_index
                   /\ new.reverse_index[v] = old.reverse_index[v]
    ]_vars

\* C20 witness: in normal mode three fields were tokenized; the vault holds two
\* entries, so one step added none
C20_Witness ==
  /\ stage = "tokenizing"
  /\ ~pin[1].self.redact_mode
  /\ pout[1].idx = 3
  /\ Len(pout[1].vault.entries) = 2

\* the number a string of decimal digits writes
RECURSIVE ParseDecimal(_)
ParseDecimal(digits) ==
  IF digits = <<>> THEN 0
  ELSE ParseDecimal(SubSeq(digits, 1, Len(digits) - 1)) * 10
       + (CHOOSE k \in 0..9 : DigitChars[k + 1] = digits[Len(digits)])

\* is  token  the prefix of the category, an underscore, and n written in decimal
\* digits, zero-padded to three digits and not beyond
IsNumbered(token, category, n) ==
  LET prefix == TOKEN_PREFIXES[category]
      suffix == SubSeq(token, Len(prefix) + 2, Len(token))
  IN  /\ Len(token) >= Len(prefix) + 4
      /\ SubSeq(token, 1, Len(prefix)) = prefix
      /\ token[Len(prefix) + 1] = "_"
      /\ \A i \in 1..Len(suffix) : \E k \in 1..10 : DigitChars[k] = suffix[i]
      /\ ParseDecimal(suffix) = n
      /\ Len(suffix) > 3 => suffix[1] # "0"

\* the tokenizer calls made so far whose value no earlier call had, in order
FirstSeen ==
  SelectSeq([i \in 1..pout[1].idx |-> i],
            LAMBDA i : \A j \in 1..(i - 1) :
                         pin[1].events[j].real_value # pin[1].events[i].real_value)

\* entity counts at which the width of the suffix is decided
PaddingCounts == {1, 9, 10, 99, 100, 999, 1000, 1001, 12345}

\* C21: token numbering. In normal mode the n-th distinct value handed to the
\* tokenizer has the n-th entry of the vault, with the category and the path of
\* the field where it was first seen and the token <prefix of that category>_<n
\* in at least three digits>; the numbers run over all categories together, so
\* the suffixes of the tokens are 1..entity_count, each once. Counts of one to
\* five digits are written in three digits or, beyond 999, in their own.
C21_TokenNumbering ==
  /\ (stage = "tokenizing" /\ ~pin[1].self.redact_mode) =>
       LET vault == pout[1].vault
       IN  /\ vault.entity_count = Len(FirstSeen)
           /\ Len(vault.entries) = Len(FirstSeen)
           /\ \A n \in 1..Len(FirstSeen) :
                LET e == pin[1].events[FirstSeen[n]]
                IN  /\ vault.entries[n].real_value = e.real_value
                    /\ vault.entries[n].category = e.category
                    /\ vault.entries[n].field_path = e.field_path
                    /\ IsNumbered(vault.entries[n].token, e.category, n)
           /\ pout[1].idx > 0 =>
                \E n \in 1..Len(FirstSeen) :
                  /\ pout[1].token = Some(vault.entries[n].token)
                  /\ vault.entries[n].real_value =
                       pin[1].events[pout[1].idx].real_value
  /\ \A c \in CategorySet, n \in PaddingCounts : IsNumbered(MintToken(c, n), c, n)

\* C21 witness: in normal mode three fields were tokenized, the first and the
\* third hold one value, and the two entries have different categories
C21_Witness ==
  /\ stage = "tokenizing"
  /\ ~pin[1].self.redact_mode
  /\ pout[1].idx = 3
  /\ FirstSeen = <<1, 2>>
  /\ pout[1].vault.entries[1].category # pout[1].vault.entries[2].category
  /\ pout[1].token = Some(pout[1].vault.entries[1].token)

\* C28: index consistency. In normal mode, after every tokenization step, the
\* forward map and the reverse index are inverse to each other: every entry is
\* held under a token of its own and its original is bound to that token in the
\* reverse index, every original of the reverse index is bound to the token of
\* the one entry that holds it, and entity_count is the number of entries and
\* the number of originals in the reverse index.
C28_IndexConsistency ==
  (stage = "tokenizing" /\ ~pin[1].self.redact_mode) =>
    LET vault == pout[1].vault
        slots == 1..Len(vault.entries)
    IN  /\ \A i, j \in slots :
             i # j => /\ vault.entries[i].token # vault.entries[j].token
                      /\ vault.entries[i].real_value # vault.entries[j].real_value
        /\ \A i \in slots :
             /\ vault.entries[i].real_value \in DOMAIN vault.reverse_index
             /\ vault.reverse_index[vault.entries[i].real_value] = vault.entries[i].token
        /\ \A v \in DOMAIN vault.reverse_index :
             \E i \in slots :
               /\ vault.entries[i].token = vault.reverse_index[v]
               /\ vault.entries[i].real_value = v
        /\ vault.entity_count = Len(vault.entries)
        /\ vault.entity_count = Cardinality(DOMAIN vault.reverse_index)

\* C28 witness: in normal mode the walk is through all its fields, at least
\* three; one value came twice, and the vault holds two entries or more
C28_Witness ==
  /\ stage = "tokenizing"
  /\ ~pin[1].self.redact_mode
  /\ pout[1].idx = Len(pin[1].events)
  /\ pout[1].idx >= 3
  /\ Len(pout[1].vault.entries) >= 2
  /\ Len(pout[1].vault.entries) < pout[1].idx
  /\ Cardinality(DOMAIN pout[1].vault.reverse_index) = Len(pout[1].vault.entries)

\* ------------------------------------------------------------------------
\* Classification as a function of the engine and the field name
\* ------------------------------------------------------------------------

K_account_code == <<"a","c","c","o","u","n","t","_","c","o","d","e">>
K_account_number == <<"a","c","c","o","u","n","t","_","n","u","m","b","e","r">>
K_account_holder == <<"a","c","c","o","u","n","t","_","h","o","l","d","e","r">>
K_Account_Code == <<"A","c","c","o","u","n","t","_","C","o","d","e">>
K_STATUS == <<"S","T","A","T","U","S">>
K_Account_Name == <<"A","c","c","o","u","n","t","-","N","a","m","e">>
K_email_address == <<"e","m","a","i","l","_","a","d","d","r","e","s","s">>
K_phone == <<"p","h","o","n","e">>
K_ABN == <<"A","B","N">>
K_tfn == <<"t","f","n">>
K_amount == <<"a","m","o","u","n","t">>
K_order_status == <<"o","r","d","e","r","_","s","t","a","t","u","s">>
X_account == <<"a","c","c","o","u","n","t">>
X_code == <<"c","o","d","e">>
X_Status == <<"S","t","a","t","u","s">>
S_BSB_123 == <<"B","S","B","-","1","2","3">>

\* field names drawn: every name of the allow-list, three of them in another
\* spelling, names the built-in patterns match, for every category, and names
\* they do not match
ClassifyNames ==
  FIELD_ALLOWLIST \cup {K_Account_Code, K_STATUS, K_account_number, K_account_holder,
                        K_name, K_Account_Name, K_email, K_email_address, K_phone,
                        K_ABN, K_tfn, K_amount, K_order_status}

\* extra_sensitive_fields drawn
ClassifyExtras ==
  { <<>>, <<X_account>>, <<X_code, X_Status>>, <<K_account_code>>, <<K_account_holder>> }

\* field values drawn
ClassifyValues == { JStr(S_BSB_123), JStr(S_Al) }

ClassifyInit ==
  /\ ProtoInit /\ Constructed
  /\ pin \in {Some([self |-> NewDeIdentifier(1, extras, redact), key |-> key,
                     value |-> value]) :
                extras \in ClassifyExtras, redact \in BOOLEAN, key \in ClassifyNames,
                value \in ClassifyValues}
  /\ pout = None
  /\ stage = "field"

\* engine._classify_field(key) and engine.de_identify({key: value})
PureClassify ==
  /\ stage = "field"
  /\ pout' = Some([category |-> ClassifyField(pin[1].self, pin[1].key),
                   result |-> DeIdentify(pin[1].self,
                                         JDict(<<pin[1].key>>, <<pin[1].value>>), 1, 0)])
  /\ stage' = "classified"
  /\ UNCHANGED <<pin, protoVars, initVars>>

ClassifyNext == PureClassify

SpecClassify == ClassifyInit /\ [][ClassifyNext]_vars

\* C12: allow-list precedence. A field whose name is in the allow-list classifies
\* as not sensitive whatever the built-in patterns and the extra sensitive fields
\* are; a record with that one field comes back with the value as it was, no
\* count incremented and nothing recorded.
C12_AllowlistPrecedence ==
  (stage = "classified" /\ pin[1].key \in FIELD_ALLOWLIST) =>
    /\ pout[1].category = NoCategory
    /\ pout[1].result.sanitized_data = JDict(<<pin[1].key>>, <<pin[1].value>>)
    /\ pout[1].result.field_counts = ZeroCounts
    /\ pout[1].result.total_tokenized = 0
    /\ pout[1].result.vault.entries = <<>>

\* C12 witness: {"account_code": "BSB-123"} went through an engine whose extra
\* sensitive fields hold "account", a substring of the name
C12_Witness ==
  /\ stage = "classified"
  /\ pin[1].key = K_account_code /\ pin[1].value = JStr(S_BSB_123)
  /\ pin[1].self.extra_fields = <<X_account>>
  /\ Contains(Normalise(pin[1].key), pin[1].self.extra_fields[1])
  /\ pout[1].result.sanitized_data = JDict(<<K_account_code>>, <<JStr(S_BSB_123)>>)

\* the name classified, lower-cased, and normalised
ClassifiedLower == Lower(pin[1].key)
ClassifiedNormalised == Normalise(Lower(pin[1].key))

\* does an extra field of the engine, or a built-in pattern, occur in the
\* normalised name
FlaggedName ==
  \/ \E k \in 1..Len(pin[1].self.extra_fields) :
       Contains(ClassifiedNormalised, pin[1].self.extra_fields[k])
  \/ \E i \in 1..Len(SENSITIVE_FIELD_PATTERNS) : PatternHit(i, ClassifiedNormalised)

\* C23 as claimed: the allow-list matching rule. classify returns None for every
\* field whose normalised name equals an allow-listed name or is a substring of
\* one, even when the name matches a sensitivity pattern.
C23_AllowlistSubstring ==
  (/\ stage = "classified"
   /\ \E a \in FIELD_ALLOWLIST :
        ClassifiedNormalised = a \/ Contains(a, ClassifiedNormalised))
    => pout[1].category = NoCategory

\* C23 as amended: classify returns None for every field whose lower-cased name
\* or whose normalised name equals an allow-listed name, even when the name
\* matches a sensitivity pattern or an extra field; a name that is not equal to
\* an allow-listed name, substring of one or not, is classified as sensitive
\* when a pattern or an extra field occurs in it.
C23_AllowlistExact ==
  stage = "classified" =>
    IF ClassifiedLower \in FIELD_ALLOWLIST \/ ClassifiedNormalised \in FIELD_ALLOWLIST
      THEN pout[1].category = NoCategory
      ELSE pout[1].category = NoCategory <=> ~FlaggedName

\* C23 witness: "Account-Name" was classified: its normalised form is an
\* allow-listed name, its lower-cased form is not, and the pattern "name" occurs
\* in it
C23_Witness ==
  /\ stage = "classified"
  /\ pin[1].key = K_Account_Name
  /\ ClassifiedNormalised \in FIELD_ALLOWLIST
  /\ ClassifiedLower \notin FIELD_ALLOWLIST
  /\ PatternHit(1, ClassifiedNormalised)
  /\ pout[1].category = NoCategory

\* the categories in the order Name, Address, Email, Phone, BusinessNumber,
\* BankAccount, TaxNumber
CategoryOrder ==
  <<"name", "address", "email", "phone", "abn", "bank_account", "tax_number">>

\* does category c list a pattern whose normalised form equals the normalised
\* name or occurs in it
CategoryMatches(c, normalised) ==
  \E i \in 1..Len(SENSITIVE_FIELD_PATTERNS) :
    /\ SENSITIVE_FIELD_PATTERNS[i].category = c
    /\ \E j \in 1..Len(SENSITIVE_FIELD_PATTERNS[i].patterns) :
         LET pat == Normalise(Lower(SENSITIVE_FIELD_PATTERNS[i].patterns[j]))
         IN  normalised = pat \/ Contains(normalised, pat)

\* the name classified is not allow-listed and no extra field occurs in it
PatternsDecide ==
  /\ stage = "classified"
  /\ ClassifiedLower \notin FIELD_ALLOWLIST
  /\ ClassifiedNormalised \notin FIELD_ALLOWLIST
  /\ \A k \in 1..Len(pin[1].self.extra_fields) :
       ~Contains(ClassifiedNormalised, pin[1].self.extra_fields[k])

\* C24: category order. For a field that is not allow-listed and in which no
\* extra field occurs, classify returns the first category, in the order Name,
\* Address, Email, Phone, BusinessNumber, BankAccount, TaxNumber, that lists a
\* pattern equal to the normalised name or contained in it, and None when no
\* category lists one; "email_address", which patterns of Address and of Email
\* match, is an Address.
C24_CategoryOrder ==
  PatternsDecide =>
    /\ \A n \in 1..Len(CategoryOrder) :
         (/\ CategoryMatches(CategoryOrder[n], ClassifiedNormalised)
          /\ \A m \in 1..(n - 1) :
               ~CategoryMatches(CategoryOrder[m], ClassifiedNormalised))
           => pout[1].category = CategoryOrder[n]
    /\ (\A n \in 1..Len(CategoryOrder) :
          ~CategoryMatches(CategoryOrder[n], ClassifiedNormalised))
         => pout[1].category = NoCategory
    /\ pin[1].key = K_email_address => pout[1].category = "address"

\* C24 witness: "email_address" was classified by the patterns alone; patterns of
\* the second and of the third category match it and none of the first does
C24_Witness ==
  /\ PatternsDecide
  /\ pin[1].key = K_email_address
  /\ ~CategoryMatches("name", ClassifiedNormalised)
  /\ CategoryMatches("address", ClassifiedNormalised)
  /\ CategoryMatches("email", ClassifiedNormalised)
  /\ pout[1].category = CategoryOrder[2]

\* the name classified is allow-listed (line 335)
AllowListed ==
  ClassifiedLower \in FIELD_ALLOWLIST \/ ClassifiedNormalised \in FIELD_ALLOWLIST

\* C25: extra sensitive fields. Every field that is not allow-listed and whose
\* normalised name contains one of the configured strings, taken without regard
\* to its case and its punctuation, classifies as Name, and an allow-listed
\* field is not classified through an extra field.
C25_ExtraFields ==
  stage = "classified" =>
    /\ (/\ ~AllowListed
        /\ \E k \in 1..Len(pin[1].self.extra_fields) :
             Contains(ClassifiedNormalised, Normalise(pin[1].self.extra_fields[k])))
         => pout[1].category = "name"
    /\ AllowListed => pout[1].category = NoCategory

\* the same for the configured strings made of letters and digits only
C25_AlnumExtras ==
  stage = "classified" =>
    /\ (/\ ~AllowListed
        /\ \E k \in 1..Len(pin[1].self.extra_fields) :
             /\ Normalise(pin[1].self.extra_fields[k]) = pin[1].self.extra_fields[k]
             /\ Contains(ClassifiedNormalised, pin[1].self.extra_fields[k]))
         => pout[1].category = "name"
    /\ AllowListed => pout[1].category = NoCategory

\* ------------------------------------------------------------------------
\* Substitution as a function of the vault and the text
\* ------------------------------------------------------------------------

\* two entity counts whose tokens overlap: ENTITY_100 is a prefix of ENTITY_1000
SubstCounts == <<100, 1000>>

T_ENTITY_100 == MintToken("name", SubstCounts[1])
T_ENTITY_1000 == MintToken("name", SubstCounts[2])

\* original values: two plain names, and a name that reads like a token
SubstValues == {S_Al, S_Bo, T_ENTITY_100}

\* what the text is made of: the two tokens and a blank
SubstPieces == {T_ENTITY_100, T_ENTITY_1000, S_blank}

\* pieces in a text, at most
MaxPieces == 3

\* of a vault of SubstCounts[2] entities, the entries whose tokens occur in the
\* text (a pair whose token does not occur is skipped by line 478), in the order
\* they were inserted
SubstVault(a, b) ==
  LET entry(i, v) == [token |-> MintToken("name", SubstCounts[i]), real_value |-> v,
                      category |-> "name", field_path |-> RootPath \o <<".">> \o K_name]
  IN  [NewVault(1, 0, 1) EXCEPT
         !.entity_count = SubstCounts[2],
         !.entries = <<entry(1, a), entry(2, b)>>,
         !.reverse_index = (a :> T_ENTITY_100) @@ (b :> T_ENTITY_1000)]

RECURSIVE Flatten(_)
Flatten(pieces) ==
  IF pieces = <<>> THEN <<>> ELSE Head(pieces) \o Flatten(Tail(pieces))

SubstInit ==
  /\ ProtoInit /\ Constructed
  /\ pin \in {Some([vault |-> SubstVault(a, b), pieces |-> ps]) :
                a \in SubstValues, b \in SubstValues,
                ps \in UNION {[1..n -> SubstPieces] : n \in 2..MaxPieces}}
  /\ pin[1].vault.entries[1].real_value # pin[1].vault.entries[2].real_value
  /\ pout = None
  /\ stage = "text"

\* lines 437-443 of re_identify on the text
PureReplace ==
  /\ stage = "text"
  /\ pout' = Some(WalkAndReplace(JStr(Flatten(pin[1].pieces)),
                                 TokenPairs(pin[1].vault)))
  /\ stage' = "replaced"
  /\ UNCHANGED <<pin, protoVars, initVars>>

SubstNext == PureReplace

SpecSubst == SubstInit /\ [][SubstNext]_vars

\* the original value a piece of the text stands for
OwnValue(vault, piece) ==
  IF \E i \in 1..Len(vault.entries) : vault.entries[i].token = piece
    THEN (CHOOSE e \in {vault.entries[i] : i \in 1..Len(vault.entries)} :
            e.token = piece).real_value
    ELSE piece

\* the text with every occurrence of every token replaced by its own original
OwnValues(vault, pieces) ==
  Flatten([i \in 1..Len(pieces) |-> OwnValue(vault, pieces[i])])

\* does the text hold an occurrence of each of the two tokens
BothOccur(pieces) ==
  /\ \E i \in 1..Len(pieces) : pieces[i] = T_ENTITY_100
  /\ \E i \in 1..Len(pieces) : pieces[i] = T_ENTITY_1000

\* C4: substring safety. With ENTITY_100 and ENTITY_1000 in one vault,
\* re-identifying a text that holds both gives the text with each occurrence of
\* each token replaced by that token's own original, no fragment left over.
C4_SubstringSafety ==
  (stage = "replaced" /\ BothOccur(pin[1].pieces)) =>
    pout[1] = JStr(OwnValues(pin[1].vault, pin[1].pieces))

\* the same, for vaults none of whose originals holds a token
C4_PlainOriginals ==
  (stage = "replaced" /\ BothOccur(pin[1].pieces)
     /\ \A i \in 1..2 : ~Contains(pin[1].vault.entries[i].real_value, T_ENTITY_100)) =>
    pout[1] = JStr(OwnValues(pin[1].vault, pin[1].pieces))

\* does token stand in text at position i
MatchAt(text, i, token) ==
  /\ i + Len(token) - 1 <= Len(text)
  /\ SubSeq(text, i, i + Len(token) - 1) = token

\* one simultaneous substitution over the text, left to right from position i:
\* where tokens stand, the longest of them is replaced by its original and the
\* scan goes on behind it; elsewhere the character is kept
RECURSIVE SinglePass(_, _, _)
SinglePass(text, token_pairs, i) ==
  IF i > Len(text) THEN <<>>
  ELSE LET here == {k \in 1..Len(token_pairs) : MatchAt(text, i, token_pairs[k][1])}
       IN  IF here = {}
             THEN <<text[i]>> \o SinglePass(text, token_pairs, i + 1)
             ELSE LET k == CHOOSE k \in here :
                             \A m \in here :
                               Len(token_pairs[m][1]) <= Len(token_pairs[k][1])
                  IN  token_pairs[k][2]
                      \o SinglePass(text, token_pairs, i + Len(token_pairs[k][1]))

\* the pairs of the vault in the order of its entries
EntryPairs(vault) ==
  [i \in 1..Len(vault.entries) |->
     <<vault.entries[i].token, vault.entries[i].real_value>>]

\* C29: substitution equals single-pass replacement. For every text and every
\* vault the result of _replace_tokens_in_string is the result of one
\* simultaneous left-to-right longest-match substitution over the text: an
\* original put in by one replacement is not altered by a later one.
C29_SinglePass ==
  stage = "replaced" =>
    pout[1] = JStr(SinglePass(Flatten(pin[1].pieces), EntryPairs(pin[1].vault), 1))

\* the same, for vaults none of whose originals holds a token
C29_SinglePassPlain ==
  (stage = "replaced"
     /\ \A i \in 1..2 : ~Contains(pin[1].vault.entries[i].real_value, T_ENTITY_100)) =>
    pout[1] = JStr(SinglePass(Flatten(pin[1].pieces), EntryPairs(pin[1].vault), 1))

====
